---- MODULE Spec2Model ----
(***************************************************************************)
(* A model of the motor controller's trajectory and kinematics library:    *)
(*   trajectories.py  1-D trajectories (splines, trapezoidal velocity) and *)
(*                    the multi-dimensional RobotTrajectory                *)
(*   robots.py        robot models (MGD, analytical MGI, Jacobian) and the *)
(*                    numerical MGI solvers                                *)
(*                                                                         *)
(* Numbers.  The code computes with floating point numbers; the model      *)
(* computes with exact rationals <<num, den>> (den > 0, lowest terms), so  *)
(* that equalities and orderings are those of the real numbers the code    *)
(* approximates.                                                           *)
(***************************************************************************)
EXTENDS Integers, Sequences, FiniteSets, TLC

VARIABLES
    traj,       \* SpecTraj: the 1-D trajectory under query
    query,      \* SpecTraj: the getVal call in progress (NoQuery: none)
    ret,        \* SpecTraj: what that call gave back
    robot,      \* SpecRobot: the robot model's name
    call,       \* SpecRobot: the method call in progress (NoCall: none)
    out         \* SpecRobot: what that call gave back

trajVars == <<traj, query, ret>>
robotVars == <<robot, call, out>>
vars == <<trajVars, robotVars>>

(***************************************************************************)
(* Rational arithmetic                                                     *)
(***************************************************************************)
Abs(i) == IF i < 0 THEN -i ELSE i

RECURSIVE Gcd(_, _)
Gcd(a, b) ==
    IF b = 0 THEN a ELSE CHOOSE g \in {Gcd(y, x % y) : x \in {a}, y \in {b}} : TRUE

Rat(n, d) ==
    CHOOSE r \in {<<(s * x) \div g, (s * y) \div g>> :
                    <<x, y, s, g>> \in {<<u, v, IF v < 0 THEN -1 ELSE 1, Gcd(Abs(u), Abs(v))>> :
                                           u \in {n}, v \in {d}}} : TRUE

I(n) == <<n, 1>>
Zero == I(0)
One == I(1)

\* An operand is bound once (x \in {a}) so that it is evaluated once, however
\* many times the operation reads it.
RSum(x, y, g) == Rat(x[1] * (y[2] \div g) + y[1] * (x[2] \div g), (x[2] \div g) * y[2])
RAdd(a, b) ==
    CHOOSE r \in {IF x[1] = 0 THEN y ELSE IF y[1] = 0 THEN x ELSE RSum(x, y, Gcd(x[2], y[2])) :
                    x \in {a}, y \in {b}} : TRUE
RNeg(a) == CHOOSE r \in {<<-x[1], x[2]>> : x \in {a}} : TRUE
RSub(a, b) == RAdd(a, RNeg(b))
RMul(a, b) ==
    CHOOSE r \in {IF x[1] = 0 \/ y[1] = 0 THEN Zero
                  ELSE IF x = One THEN y
                  ELSE IF y = One THEN x
                  ELSE <<(x[1] \div Gcd(Abs(x[1]), y[2])) * (y[1] \div Gcd(Abs(y[1]), x[2])),
                         (x[2] \div Gcd(Abs(y[1]), x[2])) * (y[2] \div Gcd(Abs(x[1]), y[2]))>> :
                    x \in {a}, y \in {b}} : TRUE
RInv(a) == CHOOSE r \in {IF x[1] < 0 THEN <<-x[2], -x[1]>> ELSE <<x[2], x[1]>> : x \in {a}} : TRUE
RDiv(a, b) == RMul(a, RInv(b))
RLt(a, b) ==
    \E x \in {a}, y \in {b} :
        x[1] * (y[2] \div Gcd(x[2], y[2])) < y[1] * (x[2] \div Gcd(x[2], y[2]))
RLe(a, b) ==
    \E x \in {a}, y \in {b} :
        x[1] * (y[2] \div Gcd(x[2], y[2])) <= y[1] * (x[2] \div Gcd(x[2], y[2]))
RAbs(a) == CHOOSE r \in {<<Abs(x[1]), x[2]>> : x \in {a}} : TRUE
RFloor(a) == a[1] \div a[2]
RSign(a) == IF a[1] > 0 THEN One ELSE IF a[1] < 0 THEN RNeg(One) ELSE Zero

RECURSIVE RPow(_, _)
RPow(a, k) == IF k = 0 THEN One ELSE RMul(a, RPow(a, k - 1))

\* Python's float % for a positive divisor: the result lies in [0, D).
RMod(x, D) == RSub(x, RMul(D, I(RFloor(RDiv(x, D)))))

\* The integer square root, by bisection between lo and hi.
RECURSIVE ISqrtFrom(_, _, _)
ISqrtFrom(n, lo, hi) ==
    IF lo = hi THEN lo
    ELSE CHOOSE r \in {IF mid * mid <= n THEN ISqrtFrom(n, mid, hi) ELSE ISqrtFrom(n, lo, mid - 1) :
                          mid \in {(lo + hi + 1) \div 2}} : TRUE
ISqrt(n) == IF n <= 0 THEN 0 ELSE ISqrtFrom(n, 0, IF n < 46340 THEN n ELSE 46340)
IsSquare(n) == ISqrt(n) * ISqrt(n) = n
\* The square root of a rational that has a rational square root.
RIsSquare(a) == a[1] >= 0 /\ IsSquare(a[1]) /\ IsSquare(a[2])
RSqrt(a) == CHOOSE r \in {<<ISqrt(x[1]), ISqrt(x[2])>> : x \in {a}} : TRUE

(***************************************************************************)
(* np.linalg.solve: the solution of A x = B, or LinAlgError when A is      *)
(* singular.  M is the augmented matrix: m rows of m+1 entries.            *)
(***************************************************************************)
\* TLC evaluates a function expression anew at every application unless
\* the function has been enumerated; comparing it enumerates it.
Force(f) == IF f = <<>> THEN <<>> ELSE f

PivotRows(M, m, k) == {p \in k..m : M[p][k] # Zero}

RowScale(row, c) == Force([j \in DOMAIN row |-> RMul(row[j], c)])
RowSubMul(row, piv, c) == Force([j \in DOMAIN row |-> RSub(row[j], RMul(piv[j], c))])

\* Gauss-Jordan elimination; [ok |-> FALSE] when no pivot is left in a column.
RECURSIVE Eliminate(_, _, _)
Eliminate(M, m, k) ==
    IF k > m THEN [ok |-> TRUE, M |-> M]
    ELSE IF PivotRows(M, m, k) = {} THEN [ok |-> FALSE, M |-> <<>>]
    ELSE LET p == CHOOSE q \in PivotRows(M, m, k) :
                      \A r \in PivotRows(M, m, k) : q <= r
             piv == RowScale(M[p], RInv(M[p][k]))
             swapped == [M EXCEPT ![p] = M[k], ![k] = piv]
             cleared == Force([i \in 1..m |->
                           IF i = k \/ swapped[i][k] = Zero THEN swapped[i]
                           ELSE RowSubMul(swapped[i], piv, swapped[i][k])])
         IN  CHOOSE r \in {Eliminate(c, m, k + 1) : c \in {cleared}} : TRUE

\* A: m x m matrix (sequence of rows), B: sequence of m entries.
\* [ok |-> FALSE] stands for the LinAlgError numpy raises on a singular A.
linalg_augmented(A, B) ==
    Force([i \in 1..Len(A) |-> Force([j \in 1..(Len(A) + 1) |->
        IF j <= Len(A) THEN A[i][j] ELSE B[i]])])
linalg_solution(red) ==
    IF ~red.ok THEN [ok |-> FALSE, x |-> <<>>]
    ELSE [ok |-> TRUE, x |-> [i \in 1..Len(red.M) |-> red.M[i][Len(red.M) + 1]]]
linalg_solve(A, B) ==
    CHOOSE r \in {linalg_solution(red) :
                     red \in {Eliminate(aug, Len(aug), 1) :
                                aug \in {linalg_augmented(a, b) : a \in {A}, b \in {B}}}} : TRUE

(***************************************************************************)
(* Splines.  knots is a sequence of rows <<t, x>> (or <<t, x, v>>) of      *)
(* rationals; row i of the model is row i-1 of the code's array.  coeffs   *)
(* is a sequence of n-1 rows <<c0, c1, c2, c3>>.                           *)
(***************************************************************************)
KT(knots, i) == knots[i][1]
KX(knots, i) == knots[i][2]

\* The 4x4 system of the two Hermite splines, in the unknowns (a, b, c, d)
\* of a t^3 + b t^2 + c t + d.
HermiteMatrix(dt) ==
    << <<Zero, Zero, Zero, One>>,
       <<RPow(dt, 3), RPow(dt, 2), dt, One>>,
       <<Zero, Zero, One, Zero>>,
       <<RMul(I(3), RPow(dt, 2)), RMul(I(2), dt), One, Zero>> >>

\* coeffs[i, 0..3] = solutions[3], [2], [1], [0]
Reversed(sol) == <<sol[4], sol[3], sol[2], sol[1]>>

ConstantSplinePolynomials(knots) ==
    [ok |-> TRUE,
     coeffs |-> [i \in 1..(Len(knots) - 1) |-> <<KX(knots, i), Zero, Zero, Zero>>]]

LinearSplinePolynomials(knots) ==
    [ok |-> TRUE,
     coeffs |-> [i \in 1..(Len(knots) - 1) |->
        <<KX(knots, i),
          RDiv(RSub(KX(knots, i + 1), KX(knots, i)),
               RSub(KT(knots, i + 1), KT(knots, i))),
          Zero, Zero>>]]

\* One solve per segment; a failing solve aborts the construction.
SegmentSolves(knots, rhs(_)) ==
    LET sols == [i \in 1..(Len(knots) - 1) |->
                   linalg_solve(HermiteMatrix(RSub(KT(knots, i + 1), KT(knots, i))),
                                rhs(i))]
    IN  IF \E i \in DOMAIN sols : ~sols[i].ok THEN [ok |-> FALSE, coeffs |-> <<>>]
        ELSE [ok |-> TRUE, coeffs |-> [i \in DOMAIN sols |-> Reversed(sols[i].x)]]

CubicZeroDerivativePolynomials(knots) ==
    LET rhs(i) == <<KX(knots, i), KX(knots, i + 1), Zero, Zero>>
    IN  SegmentSolves(knots, rhs)

CubicCustomDerivativePolynomials(knots) ==
    IF Len(knots[1]) < 3 THEN [ok |-> FALSE, coeffs |-> <<>>]   \* the assert
    ELSE LET rhs(i) == <<KX(knots, i), KX(knots, i + 1), knots[i][3], knots[i + 1][3]>>
         IN  SegmentSolves(knots, rhs)

\* First row (model index) of the 4-point stencil of segment i (model index).
StencilFirst(n, i) == IF i = 1 THEN 1 ELSE IF i = n - 1 THEN i - 2 ELSE i - 1

CubicWideStencilPolynomials(knots) ==
    LET n == Len(knots)
        sol(i) ==
            LET f == StencilFirst(n, i)
                t == [j \in 1..4 |-> RSub(KT(knots, f + j - 1), KT(knots, i))]
                A == [j \in 1..4 |-> <<RPow(t[j], 3), RPow(t[j], 2), t[j], One>>]
                B == [j \in 1..4 |-> KX(knots, f + j - 1)]
            IN  linalg_solve(A, B)
        sols == [i \in 1..(n - 1) |-> sol(i)]
    IN  IF n < 4 THEN [ok |-> FALSE, coeffs |-> <<>>]            \* the assert
        ELSE IF \E i \in DOMAIN sols : ~sols[i].ok THEN [ok |-> FALSE, coeffs |-> <<>>]
        ELSE [ok |-> TRUE, coeffs |-> [i \in DOMAIN sols |-> Reversed(sols[i].x)]]

\* The rows the natural and the periodic spline share: entry (r, c), model
\* indices, of the 4(n-1) x 4(n-1) matrix before the boundary rows are set.
\* Segment s (model index) owns rows and columns 4(s-1)+1 .. 4(s-1)+4.
GlobalBase(knots, r, c) ==
    LET n == Len(knots)
        s == ((r - 1) \div 4) + 1
        k == ((r - 1) % 4) + 1
        j == c - 4 * (s - 1)
        dt == RSub(KT(knots, s + 1), KT(knots, s))
    IN  CASE k = 1 -> IF j = 4 THEN One ELSE Zero
          [] k = 2 -> IF j \in 1..4 THEN RPow(dt, 4 - j) ELSE Zero
          [] k = 3 /\ s < n - 1 ->
                 IF j = 1 THEN RMul(I(3), RPow(dt, 2))
                 ELSE IF j = 2 THEN RMul(I(2), dt)
                 ELSE IF j = 3 THEN One
                 ELSE IF j = 7 THEN RNeg(One)
                 ELSE Zero
          [] k = 4 /\ s < n - 1 ->
                 IF j = 1 THEN RMul(I(6), dt)
                 ELSE IF j = 2 THEN I(2)
                 ELSE IF j = 6 THEN I(-2)
                 ELSE Zero
          [] OTHER -> Zero

GlobalRhs(knots) ==
    [r \in 1..(4 * (Len(knots) - 1)) |->
        LET s == ((r - 1) \div 4) + 1
            k == ((r - 1) % 4) + 1
        IN  IF k = 1 THEN KX(knots, s)
            ELSE IF k = 2 THEN KX(knots, s + 1)
            ELSE Zero]

GlobalCoeffs(knots, A) ==
    LET sol == linalg_solve(A, GlobalRhs(knots))
    IN  IF ~sol.ok THEN [ok |-> FALSE, coeffs |-> <<>>]
        ELSE [ok |-> TRUE,
              coeffs |-> [i \in 1..(Len(knots) - 1) |->
                 <<sol.x[4 * (i - 1) + 4], sol.x[4 * (i - 1) + 3],
                   sol.x[4 * (i - 1) + 2], sol.x[4 * (i - 1) + 1]>>]]

\* A[-2, 1] = 2;  A[-1, -4:-2] = [6 dt, 2]
NaturalCubicPolynomials(knots) ==
    LET n == Len(knots)
        N == 4 * (n - 1)
        dt == RSub(KT(knots, n), KT(knots, n - 1))
        A == [r \in 1..N |-> [c \in 1..N |->
                 IF r = N /\ c = N - 3 THEN RMul(I(6), dt)
                 ELSE IF r = N /\ c = N - 2 THEN I(2)
                 ELSE IF r = N - 1 /\ c = 2 THEN I(2)
                 ELSE GlobalBase(knots, r, c)]]
    IN  GlobalCoeffs(knots, A)

\* A[-2, 1] = 2;  A[-2, -4:-2] = [-6 dt, -2];  A[-1, 2] = 1;
\* A[-1, -4:] = [-3 dt^2, -2 dt, -1, 0].  A later assignment overwrites an
\* earlier one where they meet (one segment only).
PeriodicCubicPolynomials(knots) ==
    LET n == Len(knots)
        N == 4 * (n - 1)
        dt == RSub(KT(knots, n), KT(knots, n - 1))
        A == [r \in 1..N |-> [c \in 1..N |->
                 IF r = N /\ c = N - 3 THEN RNeg(RMul(I(3), RPow(dt, 2)))
                 ELSE IF r = N /\ c = N - 2 THEN RNeg(RMul(I(2), dt))
                 ELSE IF r = N /\ c = N - 1 THEN RNeg(One)
                 ELSE IF r = N /\ c = N THEN Zero
                 ELSE IF r = N /\ c = 3 THEN One
                 ELSE IF r = N - 1 /\ c = N - 3 THEN RNeg(RMul(I(6), dt))
                 ELSE IF r = N - 1 /\ c = N - 2 THEN I(-2)
                 ELSE IF r = N - 1 /\ c = 2 THEN I(2)
                 ELSE GlobalBase(knots, r, c)]]
    IN  GlobalCoeffs(knots, A)

updatePolynomials(type, knots) ==
    CASE type = "ConstantSpline" -> ConstantSplinePolynomials(knots)
      [] type = "LinearSpline" -> LinearSplinePolynomials(knots)
      [] type = "CubicZeroDerivativeSpline" -> CubicZeroDerivativePolynomials(knots)
      [] type = "CubicWideStencilSpline" -> CubicWideStencilPolynomials(knots)
      [] type = "CubicCustomDerivativeSpline" -> CubicCustomDerivativePolynomials(knots)
      [] type = "NaturalCubicSpline" -> NaturalCubicPolynomials(knots)
      [] type = "PeriodicCubicSpline" -> PeriodicCubicPolynomials(knots)

SplineTypes ==
    {"ConstantSpline", "LinearSpline", "CubicZeroDerivativeSpline",
     "CubicWideStencilSpline", "CubicCustomDerivativeSpline",
     "NaturalCubicSpline", "PeriodicCubicSpline"}

\* Spline.__init__: the object, or ok = FALSE when updatePolynomials raises.
Spline(type, knots, start) ==
    LET n == Len(knots)
        pol == updatePolynomials(type, knots)
    IN  [ok |-> pol.ok, type |-> type, start |-> start, knots |-> knots, n |-> n,
         coeffs |-> pol.coeffs, end |-> RAdd(KT(knots, n), start)]

(***************************************************************************)
(* What a call gives back: a number, None, or the exception it raises.     *)
(***************************************************************************)
Val(v) == [kind |-> "val", v |-> v, exc |-> ""]
Raise(e) == [kind |-> "raise", v |-> Zero, exc |-> e]
None == [kind |-> "none", v |-> Zero, exc |-> ""]

\* Spline.getPolynomial: the segments whose open interval holds t - start.
Segments(T, t) ==
    {k \in 1..(T.n - 1) :
        /\ RLt(KT(T.knots, k), RSub(t, T.start))
        /\ RLt(RSub(t, T.start), KT(T.knots, k + 1))}

\* found = FALSE stands for the pair (0, 0) of the last line: p is then the
\* integer 0, not an array.
getPolynomial(T, t) ==
    IF Segments(T, t) = {} THEN [found |-> FALSE, adjusted_t |-> Zero, p |-> <<>>]
    ELSE LET k == CHOOSE j \in Segments(T, t) : \A i \in Segments(T, t) : j <= i
         IN  [found |-> TRUE,
              adjusted_t |-> RSub(RSub(t, T.start), KT(T.knots, k)),
              p |-> T.coeffs[k]]

\* A shift that moves the slots without the factors of the derivative.
DerivShift_Plain(p) == <<p[2], p[3], p[4], Zero>>
\* One turn of the loop "for _ in range(d)".
DerivShift(p) == <<p[2], RMul(p[3], I(2)), RMul(p[4], I(3)), Zero>>

RECURSIVE Derive(_, _)
Derive(p, d) == IF d <= 0 THEN p ELSE Derive(DerivShift(p), d - 1)

PolyValue(p, u) ==
    RAdd(RAdd(p[1], RMul(u, p[2])),
         RAdd(RMul(RPow(u, 2), p[3]), RMul(RPow(u, 3), p[4])))

\* Spline.getVal with the end test made strict (t > end): at t = end it goes
\* on to getPolynomial, as TrapezoidalVelocity.getVal goes on to its zones.
SplineGetVal_StrictEnd(T, t, d) ==
    IF RLe(t, T.start) THEN (IF d = 0 THEN Val(KX(T.knots, 1)) ELSE Val(Zero))
    ELSE IF RLt(T.end, t) THEN (IF d = 0 THEN Val(KX(T.knots, T.n)) ELSE Val(Zero))
    ELSE LET r == getPolynomial(T, t)
         IN  IF ~r.found THEN Raise("AttributeError")
             ELSE Val(PolyValue(Derive(r.p, d), r.adjusted_t))

\* Spline.getVal
SplineGetVal(T, t, d) ==
    IF RLe(t, T.start) THEN (IF d = 0 THEN Val(KX(T.knots, 1)) ELSE Val(Zero))
    ELSE IF RLe(T.end, t) THEN (IF d = 0 THEN Val(KX(T.knots, T.n)) ELSE Val(Zero))
    ELSE LET r == getPolynomial(T, t)
         IN  IF ~r.found THEN Raise("AttributeError")    \* (0).copy()
             ELSE Val(PolyValue(Derive(r.p, d), r.adjusted_t))

\* The query passed on to Spline.getVal as it is, without the reduction of t.
PeriodicGetVal_NoWrap(T, t, d) == SplineGetVal(T, t, d)
\* PeriodicCubicSpline.getVal (D > 0: the last knot time is positive)
PeriodicGetVal(T, t, d) ==
    LET D == RSub(T.end, T.start)
    IN  SplineGetVal(T, RAdd(T.start, RMod(RSub(t, T.start), D)), d)

(***************************************************************************)
(* TrapezoidalVelocity.  knots = <<x_src, x_end>>.                         *)
(***************************************************************************)
TrapezoidalVelocity(knots, vMax, accMax, start) ==
    LET x_src == knots[1]
        x_end == knots[2]
        D == RSub(x_end, x_src)
        Tacc == IF RLt(RDiv(RMul(vMax, vMax), accMax), RAbs(D))
                THEN RDiv(vMax, accMax)
                ELSE RSqrt(RDiv(RAbs(D), accMax))
        Dacc == RDiv(RMul(accMax, RMul(Tacc, Tacc)), I(2))
    IN  [ok |-> TRUE, type |-> "TrapezoidalVelocity", start |-> start,
         x_src |-> x_src, x_end |-> x_end, D |-> D, vMax |-> vMax,
         accMax |-> accMax, Tacc |-> Tacc, Dacc |-> Dacc,
         end |-> RAdd(RAdd(start, RMul(I(2), Tacc)),
                      RDiv(RSub(RAbs(D), RMul(I(2), Dacc)), vMax))]

\* TrapezoidalVelocity.getVal.  The zone tests compare t itself, not
\* t - start, with Tacc and T - Tacc, and so do the formulas.
TrapezoidalGetVal(T, t, d) ==
    LET D_sign == RSign(T.D)
        TT == RSub(T.end, T.start)
    IN  IF d < 0 \/ d > 2 THEN Val(Zero)
        ELSE IF RLt(t, T.start) THEN (IF d = 0 THEN Val(T.x_src) ELSE Val(Zero))
        ELSE IF RLt(T.end, t) THEN (IF d = 0 THEN Val(T.x_end) ELSE Val(Zero))
        ELSE IF RLe(t, T.Tacc) THEN
            (IF d = 0 THEN Val(RAdd(T.x_src,
                               RDiv(RMul(D_sign, RMul(T.accMax, RMul(t, t))), I(2))))
             ELSE IF d = 1 THEN Val(RMul(D_sign, RMul(T.accMax, t)))
             ELSE Val(RMul(D_sign, T.accMax)))
        ELSE IF RLt(RSub(TT, T.Tacc), t) THEN
            (IF d = 0 THEN Val(RSub(T.x_end,
                               RDiv(RMul(D_sign, RMul(T.accMax,
                                       RMul(RSub(TT, t), RSub(TT, t)))), I(2))))
             ELSE IF d = 1 THEN Val(RMul(D_sign, RMul(T.accMax, RSub(TT, t))))
             ELSE Val(RNeg(RMul(D_sign, T.accMax))))
        ELSE
            (IF d = 0 THEN Val(RAdd(T.x_src,
                               RMul(D_sign, RAdd(T.Dacc,
                                       RMul(T.vMax, RSub(t, T.Tacc))))))
             ELSE IF d = 1 THEN Val(RMul(D_sign, T.vMax))
             ELSE Val(Zero))

\* The getVal of the object's class.
getVal(T, t, d) ==
    CASE T.type = "TrapezoidalVelocity" -> TrapezoidalGetVal(T, t, d)
      [] T.type = "PeriodicCubicSpline" -> PeriodicGetVal(T, t, d)
      [] OTHER -> SplineGetVal(T, t, d)

\* The object after Spline.getVal without `p1 = p.copy()`: the loop
\* "for _ in range(d)" then writes into the row of coeffs that
\* getPolynomial returned.
AfterGetVal_InPlace(T, t, d) ==
    IF T.type = "TrapezoidalVelocity" \/ RLe(t, T.start) \/ RLe(T.end, t)
       \/ Segments(T, t) = {}
    THEN T
    ELSE [T EXCEPT !.coeffs[CHOOSE j \in Segments(T, t) : \A i \in Segments(T, t) : j <= i] =
                       Derive(getPolynomial(T, t).p, d)]
\* The object after getVal(t, d).  No getVal assigns an attribute of self;
\* Spline.getVal shifts p1, the copy it made of the row of coeffs.
AfterGetVal(T, t, d) == T

(***************************************************************************)
(* Robot models.  A joint value or an angle is a number k * pi/2 + r with  *)
(* k an integer and r a rational, written [k |-> k, r |-> r]: the joint    *)
(* limits (-pi, pi) and the quarter turns, whose sines and cosines are     *)
(* rational, are such numbers, and so is every rational (k = 0).           *)
(***************************************************************************)
PiNum(k, r) == [k |-> k, r |-> r]
Num(r) == PiNum(0, r)
PiAdd(a, b) == PiNum(a.k + b.k, RAdd(a.r, b.r))
PiSub(a, b) == PiNum(a.k - b.k, RSub(a.r, b.r))
\* pi/2 to seven digits, for comparing numbers whose k differ.
PiHalfApprox == Rat(355, 226)
PiValue(a) == RAdd(RMul(I(a.k), PiHalfApprox), a.r)
PiLe(a, b) == IF a.k = b.k THEN RLe(a.r, b.r) ELSE RLe(PiValue(a), PiValue(b))

\* The other angles are rays: Ray(u, v) is the angle of the vector (u, v)
\* modulo a full turn, the value of math.atan2(v, u).  Adding angles
\* multiplies the vectors as complex numbers.
Ray(u, v) == [u |-> u, v |-> v]
atan2(y, x) == IF x = Zero /\ y = Zero THEN Ray(One, Zero) ELSE Ray(x, y)
IsPiNum(a) == "k" \in DOMAIN a
QuarterRay(k) ==
    CASE k % 4 = 0 -> Ray(One, Zero) [] k % 4 = 1 -> Ray(Zero, One)
      [] k % 4 = 2 -> Ray(RNeg(One), Zero) [] OTHER -> Ray(Zero, RNeg(One))
AsRay(a) == IF IsPiNum(a) THEN QuarterRay(a.k) ELSE a
RayAdd(a, b) ==
    LET p == AsRay(a)
        q == AsRay(b)
    IN  Ray(RSub(RMul(p.u, q.u), RMul(p.v, q.v)), RAdd(RMul(p.u, q.v), RMul(p.v, q.u)))
RayNeg(a) == LET p == AsRay(a) IN Ray(p.u, RNeg(p.v))
RayNorm2(a) == LET p == AsRay(a) IN RAdd(RMul(p.u, p.u), RMul(p.v, p.v))
\* The angle in (-pi, pi] of a ray lying on an axis, as a number k * pi/2.
OnAxis(a) == a.u = Zero \/ a.v = Zero
AxisPiNum(a) ==
    CASE a.v = Zero /\ RLt(Zero, a.u) -> PiNum(0, Zero)
      [] a.u = Zero /\ RLt(Zero, a.v) -> PiNum(1, Zero)
      [] a.v = Zero /\ RLt(a.u, Zero) -> PiNum(2, Zero)
      [] OTHER -> PiNum(-1, Zero)

\* math.cos and math.sin, of the angles whose cosine and sine are rational:
\* a whole number of quarter turns, or a ray of rational length.
Cos(a) == LET p == AsRay(a) IN RDiv(p.u, RSqrt(RayNorm2(a)))
Sin(a) == LET p == AsRay(a) IN RDiv(p.v, RSqrt(RayNorm2(a)))

\* 4x4 matrices of rationals, and the homogeneous transforms of the module
\* homogeneous_transform.
Dot4(A, B, i, j) ==
    RAdd(RAdd(RMul(A[i][1], B[1][j]), RMul(A[i][2], B[2][j])),
         RAdd(RMul(A[i][3], B[3][j]), RMul(A[i][4], B[4][j])))
MatRow(A, B, i) == <<Dot4(A, B, i, 1), Dot4(A, B, i, 2), Dot4(A, B, i, 3), Dot4(A, B, i, 4)>>
\* The product A @ B; the factors are evaluated once, before the product.
MatMul(A, B) ==
    CHOOSE M \in {<<MatRow(a, b, 1), MatRow(a, b, 2), MatRow(a, b, 3), MatRow(a, b, 4)>> :
                    a \in {A}, b \in {B}} : TRUE
VecEntry(A, v, i) ==
    RAdd(RAdd(RMul(A[i][1], v[1]), RMul(A[i][2], v[2])),
         RAdd(RMul(A[i][3], v[3]), RMul(A[i][4], v[4])))
MatVec(A, v) ==
    CHOOSE w \in {<<VecEntry(a, v, 1), VecEntry(a, v, 2), VecEntry(a, v, 3), VecEntry(a, v, 4)>> :
                    a \in {A}} : TRUE

translation(v) ==
    << <<One, Zero, Zero, v[1]>>, <<Zero, One, Zero, v[2]>>,
       <<Zero, Zero, One, v[3]>>, <<Zero, Zero, Zero, One>> >>
d_translation(v) ==
    << <<Zero, Zero, Zero, v[1]>>, <<Zero, Zero, Zero, v[2]>>,
       <<Zero, Zero, Zero, v[3]>>, <<Zero, Zero, Zero, Zero>> >>
\* The cosine and the sine are computed once, before the matrix is built.
rot_z(a) ==
    CHOOSE M \in {<< <<c, RNeg(s), Zero, Zero>>, <<s, c, Zero, Zero>>,
                     <<Zero, Zero, One, Zero>>, <<Zero, Zero, Zero, One>> >> :
                    c \in {Cos(a)}, s \in {Sin(a)}} : TRUE
d_rot_z(a) ==
    CHOOSE M \in {<< <<RNeg(s), RNeg(c), Zero, Zero>>, <<c, RNeg(s), Zero, Zero>>,
                     <<Zero, Zero, Zero, Zero>>, <<Zero, Zero, Zero, Zero>> >> :
                    c \in {Cos(a)}, s \in {Sin(a)}} : TRUE
rot_x(a) ==
    CHOOSE M \in {<< <<One, Zero, Zero, Zero>>, <<Zero, c, RNeg(s), Zero>>,
                     <<Zero, s, c, Zero>>, <<Zero, Zero, Zero, One>> >> :
                    c \in {Cos(a)}, s \in {Sin(a)}} : TRUE
d_rot_x(a) ==
    CHOOSE M \in {<< <<Zero, Zero, Zero, Zero>>, <<Zero, RNeg(s), RNeg(c), Zero>>,
                     <<Zero, c, RNeg(s), Zero>>, <<Zero, Zero, Zero, Zero>> >> :
                    c \in {Cos(a)}, s \in {Sin(a)}} : TRUE
\* The inverse of a rigid transform [R p; 0 1] is [R^T  -R^T p; 0 1].
invert_transform(T) ==
    LET p(i) == RNeg(RAdd(RAdd(RMul(T[1][i], T[1][4]), RMul(T[2][i], T[2][4])),
                          RMul(T[3][i], T[3][4])))
    IN  << <<T[1][1], T[2][1], T[3][1], p(1)>>, <<T[1][2], T[2][2], T[3][2], p(2)>>,
           <<T[1][3], T[2][3], T[3][3], p(3)>>, <<Zero, Zero, Zero, One>> >>
Origin == <<Zero, Zero, Zero, One>>
RECURSIVE MatChain(_)
MatChain(Ms) ==
    CHOOSE M \in {IF Len(x) = 1 THEN x[1] ELSE MatMul(x[1], MatChain(Tail(x))) : x \in {Ms}} : TRUE
\* The outcomes of a sequence of calls made one after the other: the first
\* exception raised, or the concatenation of the lists returned.
RECURSIVE Collect(_)
Collect(rs) ==
    IF rs = <<>> THEN Val(<<>>)
    ELSE IF rs[1].kind = "raise" THEN rs[1]
    ELSE LET rest == Collect(Tail(rs))
         IN  IF rest.kind = "raise" THEN rest ELSE Val(rs[1].v \o rest.v)
PiTurn == PiNum(2, Zero)

\* What analyticalMGI returns: the pair (nb_sols, joints), joints being
\* None when there is no solution.
PyNone == [none |-> TRUE]
\* The pair analyticalMGI returns; none tells whether its second element is
\* None.
Sol(nb_sols, joints) == Val([nb_sols |-> nb_sols, joints |-> joints, none |-> FALSE])
NoSol == Val([nb_sols |-> 0, joints |-> PyNone, none |-> TRUE])

(***************************************************************************)
(* cosineLaw(x, y, L1, L2): the list of the couples (phi + alpha,          *)
(* beta - pi) and (phi - alpha, pi - beta).  A couple is kept as the       *)
(* terms it is made of: phi a ray, alpha and beta by their cosines, of     *)
(* which the numerator and the square of the denominator are rational, and *)
(* sign = 1 for the first couple, -1 for the second.  Dividing by          *)
(* 2 * L1 * dist when dist = 0.0 is a ZeroDivisionError.                   *)
(***************************************************************************)
Acos(num, den2) == [num |-> num, den2 |-> den2]
cosineCouple(phi, alpha, beta, sign) ==
    << [phi |-> phi, alpha |-> alpha, sign |-> sign], [beta |-> beta, sign |-> sign] >>
\* The tests and the list built.  abs(alpha) > tol: alpha is not 0, its cosine
\* is not 1.
cosineSolutions(L1, L2, phi, alpha, beta, dist2) ==
    IF RLt(dist2, RMul(RSub(L1, L2), RSub(L1, L2)))
       \/ RLt(RMul(RAdd(L1, L2), RAdd(L1, L2)), dist2)
    THEN Val(<<>>)
    ELSE IF dist2 = Zero
    THEN Raise("ZeroDivisionError")
    ELSE IF ~ (RIsSquare(alpha.den2) /\ alpha.num = RSqrt(alpha.den2))
    THEN Val(<<cosineCouple(phi, alpha, beta, 1), cosineCouple(phi, alpha, beta, -1)>>)
    ELSE Val(<<cosineCouple(phi, alpha, beta, 1)>>)
cosineAngles(x, y, L1, L2, dist2) ==
    cosineSolutions(L1, L2, atan2(y, x),
                    Acos(RSub(RAdd(RMul(L1, L1), dist2), RMul(L2, L2)),
                         RMul(RMul(I(4), RMul(L1, L1)), dist2)),
                    Acos(RSub(RAdd(RMul(L1, L1), RMul(L2, L2)), dist2),
                         RMul(RMul(I(4), RMul(L1, L1)), RMul(L2, L2))),
                    dist2)
cosineLaw(x, y, L1, L2) == cosineAngles(x, y, L1, L2, RAdd(RMul(x, x), RMul(y, y)))

(***************************************************************************)
(* RobotRT                                                                 *)
(***************************************************************************)
\* RobotRT.__init__: the lengths, and the transforms built from them.  The
\* methods read them from the object (self).
RT == [W |-> Rat(5, 100), L0 |-> One, L1 |-> Rat(2, 10),
       L2 |-> RAdd(Rat(25, 100), RDiv(Rat(5, 100), I(2))), max_q1 |-> Rat(25, 100)]
RT_T ==
    [ T_0_1 |-> translation(<<Zero, Zero, RAdd(RT.L0, RDiv(RT.W, I(2)))>>),
      T_1_2 |-> translation(<<RT.L1, Zero, Zero>>),
      T_2_E |-> MatMul(translation(<<Zero, RNeg(RT.L2), Zero>>), rot_z(PiTurn)) ]

RobotRT == [name |-> "RobotRT"] @@ RT @@ RT_T

\* joints[1] is the angle q1 (a whole number of quarter turns), joints[2] the
\* length q2 (a rational).
RT_getBaseFromToolTransform(self, joints) ==
    MatChain(<<self.T_0_1, rot_z(joints[1]), self.T_1_2,
               translation(<<joints[2].r, Zero, Zero>>), self.T_2_E>>)

RT_computeMGD(self, q) ==
    CHOOSE X \in {<<tool_pos[1], tool_pos[2]>> :
                    tool_pos \in {MatVec(RT_getBaseFromToolTransform(self, q), Origin)}} : TRUE

\* target is <<x, y>>.  q0 is a number k * pi/2 when its ray lies on an axis,
\* and the ray itself otherwise.
RT_analyticalMGI(self, target) ==
    LET dist2 == RAdd(RMul(target[1], target[1]), RMul(target[2], target[2]))
        min_dist2 == RAdd(RMul(self.L1, self.L1), RMul(self.L2, self.L2))
        max_dist2 == RAdd(RMul(RAdd(self.L1, self.max_q1), RAdd(self.L1, self.max_q1)),
                          RMul(self.L2, self.L2))
        q1 == RSub(RSqrt(RSub(dist2, RMul(self.L2, self.L2))), self.L1)
        dir_to_target == atan2(target[2], target[1])
        dir_offset == atan2(self.L2, RAdd(self.L1, q1))
        q0 == RayAdd(dir_to_target, dir_offset)
    IN  IF RLt(dist2, min_dist2) \/ RLt(max_dist2, dist2)
        THEN NoSol
        ELSE Sol(1, <<IF OnAxis(q0) THEN AxisPiNum(q0) ELSE q0, Num(q1)>>)
\* Column j is the derivative of the tool position along joint j.
RT_computeJacobian(self, joints) ==
    CHOOSE J \in {<< <<c1[1][4], c2[1][4]>>, <<c1[2][4], c2[2][4]>> >> :
                    c1 \in {MatChain(<<self.T_0_1, d_rot_z(joints[1]), self.T_1_2,
                                       translation(<<joints[2].r, Zero, Zero>>), self.T_2_E>>)},
                    c2 \in {MatChain(<<self.T_0_1, rot_z(joints[1]), self.T_1_2,
                                       d_translation(<<One, Zero, Zero>>), self.T_2_E>>)}} : TRUE

(***************************************************************************)
(* RobotRRR                                                                *)
(***************************************************************************)
\* RobotRRR.__init__: the lengths, and the transforms built from them.
RRR == [W |-> Rat(5, 100), L0 |-> RAdd(One, RDiv(Rat(5, 100), I(2))), L1 |-> Rat(5, 10),
        L2 |-> Rat(4, 10), L3 |-> RAdd(Rat(3, 10), RDiv(Rat(5, 100), I(2)))]
RRR_T ==
    [ T_0_1 |-> translation(<<Zero, Zero, RRR.L0>>),
      T_1_2 |-> translation(<<Zero, RRR.L1, Zero>>),
      T_2_3 |-> translation(<<Zero, RRR.L2, Zero>>),
      T_3_E |-> translation(<<Zero, RRR.L3, Zero>>) ]

RobotRRR == [name |-> "RobotRRR"] @@ RRR @@ RRR_T

RRR_getBaseFromToolTransform(self, joints) ==
    MatChain(<<self.T_0_1, rot_z(joints[1]), self.T_1_2, rot_x(joints[2]),
               self.T_2_3, rot_x(joints[3]), self.T_3_E>>)
RRR_computeMGD(self, q) ==
    CHOOSE X \in {<<tool_pos[1], tool_pos[2], tool_pos[3]>> :
                    tool_pos \in {MatVec(RRR_getBaseFromToolTransform(self, q), Origin)}} : TRUE

\* target is <<x, y, z>>.  The norm of (x, y) is below 1e-9 when x = y = 0.
RRR_singularity(target) == target[1] = Zero /\ target[2] = Zero
RRR_theta(target) ==
    IF RRR_singularity(target) THEN PiNum(0, Zero)
    ELSE RayAdd(atan2(target[2], target[1]), PiNum(-1, Zero))
\* The solutions appended for one q0, from the list cosineLaw returned.
RRR_append(q0, q12s) ==
    IF q12s.kind = "raise" THEN q12s
    ELSE Val([i \in 1..Len(q12s.v) |-> <<q0, q12s.v[i][1], q12s.v[i][2]>>])
RRR_planar(self, q0, target_in_2a) ==
    RRR_append(q0, cosineLaw(target_in_2a[2], target_in_2a[3], self.L2, self.L3))
RRR_forQ0(self, target, q0) ==
    RRR_planar(self, q0,
               MatVec(MatChain(<<invert_transform(self.T_1_2), rot_z(RayNeg(q0)),
                                 invert_transform(self.T_0_1)>>),
                      <<target[1], target[2], target[3], One>>))
\* The return of RobotRRR.analyticalMGI without its test of the singularity.
RRR_return_Counted(target, solutions) ==
    IF solutions.kind = "raise" THEN solutions
    ELSE IF Len(solutions.v) = 0 THEN NoSol
    ELSE Sol(Len(solutions.v), solutions.v[1])
RRR_return(target, solutions) ==
    IF solutions.kind = "raise" THEN solutions
    ELSE IF Len(solutions.v) = 0 THEN NoSol
    ELSE IF RRR_singularity(target) THEN Sol(-1, solutions.v[1])
    ELSE Sol(Len(solutions.v), solutions.v[1])
RRR_analyticalMGI(self, target) ==
    RRR_return(target, Collect(<<RRR_forQ0(self, target, RRR_theta(target)),
                                 RRR_forQ0(self, target, RayAdd(RRR_theta(target), PiTurn))>>))
RRR_computeJacobian(self, joints) ==
    CHOOSE J \in {<< <<c1[1][4], c2[1][4], c3[1][4]>>, <<c1[2][4], c2[2][4], c3[2][4]>>,
                     <<c1[3][4], c2[3][4], c3[3][4]>> >> :
                    c1 \in {MatChain(<<self.T_0_1, d_rot_z(joints[1]), self.T_1_2, rot_x(joints[2]),
                                       self.T_2_3, rot_x(joints[3]), self.T_3_E>>)},
                    c2 \in {MatChain(<<self.T_0_1, rot_z(joints[1]), self.T_1_2, d_rot_x(joints[2]),
                                       self.T_2_3, rot_x(joints[3]), self.T_3_E>>)},
                    c3 \in {MatChain(<<self.T_0_1, rot_z(joints[1]), self.T_1_2, rot_x(joints[2]),
                                       self.T_2_3, d_rot_x(joints[3]), self.T_3_E>>)}} : TRUE

(***************************************************************************)
(* LegRobot                                                                *)
(***************************************************************************)
\* LegRobot.__init__: the lengths, and the transforms built from them.
Leg == [W |-> Rat(5, 100), L0 |-> RAdd(One, RDiv(Rat(5, 100), I(2))), L1 |-> Rat(5, 10),
        L2 |-> Rat(3, 10), L3 |-> Rat(3, 10),
        L4 |-> RAdd(Rat(2, 10), RDiv(Rat(5, 100), I(2)))]
Leg_T ==
    [ T_0_1 |-> translation(<<Zero, Zero, Leg.L0>>),
      T_1_2 |-> translation(<<Leg.W, Leg.L1, Zero>>),
      T_2_3 |-> translation(<<RNeg(Leg.W), Leg.L2, Zero>>),
      T_3_4 |-> translation(<<Leg.W, Leg.L3, Zero>>),
      T_4_E |-> translation(<<Zero, Leg.L4, Zero>>) ]

LegRobot == [name |-> "LegRobot"] @@ Leg @@ Leg_T

Leg_Chain(self, R1, R2, R3, R4) ==
    MatChain(<<self.T_0_1, R1, self.T_1_2, R2, self.T_2_3, R3, self.T_3_4, R4, self.T_4_E>>)
Leg_getBaseFromToolTransform(self, joints) ==
    Leg_Chain(self, rot_z(joints[1]), rot_x(joints[2]), rot_x(joints[3]), rot_x(joints[4]))
Leg_extractMGD(self, T) == CHOOSE X \in {<<M[1][4], M[2][4], M[3][4], M[3][2]>> : M \in {T}} : TRUE
Leg_computeMGD(self, joints) == Leg_extractMGD(self, Leg_getBaseFromToolTransform(self, joints))

\* target is <<x, y, z, r32>>.  The solutions appended for one q0 and one
\* q123, from the list cosineLaw returned.
Leg_append(q0, q123, q12s) ==
    IF q12s.kind = "raise" THEN q12s
    ELSE Val([i \in 1..Len(q12s.v) |->
                <<q0, q12s.v[i][1], q12s.v[i][2], [q123 |-> q123, q12 |-> q12s.v[i]]>>])
Leg_forQ123(self, q0, q123, Y_in_1, Z_in_1) ==
    Leg_append(q0, q123,
               cosineLaw(RSub(RSub(Y_in_1, RMul(Cos(q123), self.L4)), self.L1),
                         RSub(Z_in_1, RMul(Sin(q123), self.L4)), self.L2, self.L3))
Leg_inFrame1(self, q0, asin, target_pos_in_q1) ==
    << Leg_forQ123(self, q0, asin, target_pos_in_q1[2], target_pos_in_q1[3]),
       Leg_forQ123(self, q0, RayAdd(PiTurn, RayNeg(asin)),
                   target_pos_in_q1[2], target_pos_in_q1[3]) >>
Leg_forQ0(self, target, q0, asin) ==
    Leg_inFrame1(self, q0, asin,
                 MatVec(MatMul(rot_z(RayNeg(q0)), invert_transform(self.T_0_1)),
                        <<target[1], target[2], target[3], One>>))
Leg_solutions(self, target, alpha, beta, asin) ==
    Collect(Leg_forQ0(self, target, RayAdd(alpha, beta), asin)
            \o Leg_forQ0(self, target, RayAdd(PiTurn, RayAdd(alpha, RayNeg(beta))), asin))
Leg_return(sols) ==
    IF sols.kind = "raise" THEN sols
    ELSE IF Len(sols.v) = 0 THEN NoSol
    ELSE Sol(Len(sols.v), sols.v[1])
\* math.asin raises ValueError outside [-1, 1].
Leg_afterNormTest(self, target, XY_norm) ==
    IF RLt(One, RAbs(target[4])) THEN Raise("ValueError")
    ELSE Leg_return(Leg_solutions(self, target,
                                  RayAdd(atan2(target[2], target[1]), PiNum(-1, Zero)),
                                  atan2(self.W, XY_norm),
                                  Ray(RSqrt(RSub(One, RMul(target[4], target[4]))), target[4])))
Leg_analyticalMGI(self, target) ==
    IF RLt(RAdd(RMul(target[1], target[1]), RMul(target[2], target[2])), RMul(self.W, self.W))
    THEN NoSol
    ELSE Leg_afterNormTest(self, target,
                           RSqrt(RAdd(RMul(target[1], target[1]), RMul(target[2], target[2]))))
Leg_computeJacobian(self, joints) ==
    CHOOSE J \in {<< <<c1[1], c2[1], c3[1], c4[1]>>, <<c1[2], c2[2], c3[2], c4[2]>>,
                     <<c1[3], c2[3], c3[3], c4[3]>>, <<c1[4], c2[4], c3[4], c4[4]>> >> :
                    c1 \in {Leg_extractMGD(self, Leg_Chain(self, d_rot_z(joints[1]), rot_x(joints[2]),
                                                          rot_x(joints[3]), rot_x(joints[4])))},
                    c2 \in {Leg_extractMGD(self, Leg_Chain(self, rot_z(joints[1]), d_rot_x(joints[2]),
                                                          rot_x(joints[3]), rot_x(joints[4])))},
                    c3 \in {Leg_extractMGD(self, Leg_Chain(self, rot_z(joints[1]), rot_x(joints[2]),
                                                          d_rot_x(joints[3]), rot_x(joints[4])))},
                    c4 \in {Leg_extractMGD(self, Leg_Chain(self, rot_z(joints[1]), rot_x(joints[2]),
                                                          rot_x(joints[3]), d_rot_x(joints[4])))}} : TRUE

\* getRobotModel and the dispatch of the methods on the model's class.
RobotNames == {"RobotRT", "RobotRRR", "LegRobot"}
getRobotModel(robot_name) ==
    CASE robot_name = "RobotRT" -> Val(RobotRT)
      [] robot_name = "RobotRRR" -> Val(RobotRRR)
      [] robot_name = "LegRobot" -> Val(LegRobot)
      [] OTHER -> Raise("RuntimeError")
\* Row i: <<min, max>> of joint i.
getJointsLimits(self) ==
    LET angle_lim == <<PiNum(-2, Zero), PiNum(2, Zero)>>
    IN  CASE self.name = "RobotRT" -> <<angle_lim, <<Num(Zero), Num(Rat(55, 100))>> >>
          [] self.name = "RobotRRR" -> <<angle_lim, angle_lim, angle_lim>>
          [] OTHER -> <<angle_lim, angle_lim, angle_lim, angle_lim>>
computeMGD(self, q) ==
    CASE self.name = "RobotRT" -> RT_computeMGD(self, q)
      [] self.name = "RobotRRR" -> RRR_computeMGD(self, q)
      [] OTHER -> Leg_computeMGD(self, q)
analyticalMGI(self, target) ==
    CASE self.name = "RobotRT" -> RT_analyticalMGI(self, target)
      [] self.name = "RobotRRR" -> RRR_analyticalMGI(self, target)
      [] OTHER -> Leg_analyticalMGI(self, target)
computeJacobian(self, joints) ==
    CASE self.name = "RobotRT" -> RT_computeJacobian(self, joints)
      [] self.name = "RobotRRR" -> RRR_computeJacobian(self, joints)
      [] OTHER -> Leg_computeJacobian(self, joints)

(***************************************************************************)
(* RobotModel.solveJacInverse and solveJacTransposed.  A run of a solver   *)
(* is a frame: the arguments, the local variables and pc ("loop" while the *)
(* loop goes on, "done" when the method has returned joints).              *)
(***************************************************************************)
RECURSIVE SumSq(_)
SumSq(v) == IF v = <<>> THEN Zero ELSE RAdd(RMul(v[1], v[1]), SumSq(Tail(v)))
\* np.linalg.norm of a vector whose norm is rational.
norm(v) == CHOOSE r \in {RSqrt(SumSq(x)) : x \in {v}} : TRUE
VecSub(a, b) ==
    CHOOSE r \in {Force([i \in DOMAIN x |-> RSub(x[i], y[i])]) : x \in {a}, y \in {b}} : TRUE
\* joints + offset, the offset being a vector of floats.
JointsAdd(joints, offset) == Force([i \in DOMAIN joints |-> PiAdd(joints[i], Num(offset[i]))])
\* np.linalg.norm(a - b) < tol for joint vectors: two joints that differ by
\* quarter turns are further apart than any tolerance of the solvers.
JointsCloser(a, b, tol) ==
    /\ \A i \in DOMAIN a : a[i].k = b[i].k
    /\ RLt(norm([i \in DOMAIN a |-> RSub(a[i].r, b[i].r)]), tol)

\* np.random.default_rng(seed) and its draws rng.uniform(-0.1, 0.1, n): a
\* generator made from a seed gives the stream of that seed, draw after draw;
\* a generator made without seed (None) gives any value at each draw (pick).
NoSeed == PyNone
Seed(n) == [seed |-> n]
noise_level == Rat(1, 10)
NoiseOffsets ==
    << <<Zero, RNeg(noise_level)>>, <<Zero, Rat(1, 20)>> >>
Picks == 1..Len(NoiseOffsets)
\* A generator that does not take its seed into account.
rng_uniform_Unseeded(seed, draws, pick) == NoiseOffsets[pick]
rng_uniform(seed, draws, pick) ==
    IF seed = NoSeed THEN NoiseOffsets[pick]
    ELSE NoiseOffsets[((seed.seed + draws) % Len(NoiseOffsets)) + 1]

\* The end of an iteration of `for i in range(max_steps)`.
ForEnd(f) ==
    CHOOSE r \in {IF g.pc = "loop" /\ g.i = g.max THEN [g EXCEPT !.pc = "done"] ELSE g :
                    g \in {f}} : TRUE

max_step_size == Rat(5, 100)
\* solveJacInverse(joints, target, max_steps, tol, seed) up to its loop.
\* entry and err are the joints and the error norm of the last iteration,
\* moved the norm of the step it added, noise whether it added noise.
solveJacInverse(joints, target, max_steps, tol, seed) ==
    ForEnd([fn |-> "solveJacInverse", pc |-> "loop", joints |-> joints, target |-> target,
            max |-> max_steps, tol |-> tol, seed |-> seed, i |-> 0, draws |-> 0,
            entry |-> joints, err |-> Zero, moved |-> Zero, noise |-> FALSE,
            broke |-> FALSE])
\* The step taken as it is, whatever its size.
JacInverseClamp_None(step, step_size) == step
JacInverseClamp(step, step_size) ==
    IF RLt(max_step_size, step_size)
    THEN Force([i \in DOMAIN step |-> RMul(RDiv(step[i], step_size), max_step_size)])
    ELSE step
JacInverseMove(f, step) ==
    [f EXCEPT !.joints = JointsAdd(f.joints, step), !.i = f.i + 1,
              !.moved = norm(step), !.noise = FALSE]
JacInverseNoise(f, random_offset) ==
    [f EXCEPT !.joints = JointsAdd(f.joints, random_offset), !.i = f.i + 1,
              !.draws = f.draws + 1, !.moved = Zero, !.noise = TRUE]
\* The try block: np.linalg.inv raises LinAlgError on a singular Jacobian.
JacInverseStep(f, step, step_size) ==
    CHOOSE r \in {JacInverseMove(f, s) : s \in {JacInverseClamp(step, step_size)}} : TRUE
\* The try block, an iteration and the loop give the set of the frames they
\* can end in: one frame, or one frame for each value the generator can draw.
JacInverseTry(f, J_inv_error) ==
    IF J_inv_error.ok
    THEN {JacInverseStep(f, J_inv_error.x, step_size) : step_size \in {norm(J_inv_error.x)}}
    ELSE {JacInverseNoise(f, rng_uniform(f.seed, f.draws, pick)) : pick \in Picks}
JacInverseTest(self, f, error, error_norm) ==
    IF RLt(error_norm, f.tol)
    THEN {[f EXCEPT !.pc = "done", !.broke = TRUE, !.entry = f.joints, !.err = error_norm]}
    ELSE CHOOSE r \in {JacInverseTry(g, J_inv_error) :
                          g \in {[f EXCEPT !.entry = f.joints, !.err = error_norm]},
                          J_inv_error \in {linalg_solve(computeJacobian(self, f.joints), error)}} :
             TRUE
JacInverseBody(self, f, error) ==
    CHOOSE r \in {JacInverseTest(self, f, error, error_norm) :
                     error_norm \in {norm(error)}} : TRUE
\* One iteration of the loop of solveJacInverse.
JacInverseIter(self, f) ==
    CHOOSE r \in {{ForEnd(g) : g \in JacInverseBody(self, f, error)} :
                     error \in {VecSub(f.target, computeMGD(self, f.joints))}} : TRUE

tol_cost == Rat(1, 10000)
tol_joints == Rat(1, 1000)
min_improvement == RMul(tol_cost, Rat(1, 100))
cost_func(self, target, x) == norm(VecSub(computeMGD(self, x), target))
\* optimize.minimize(cost_func, x0, bounds=Bounds(limits), method="SLSQP",
\* options={"maxiter": max_iterations}) is scipy's: it returns a point
\* inside the bounds.  Three outcomes stand for it: x0 brought inside the
\* bounds and left there ("stay"), the minimiser goal itself ("solve"), and
\* a short move of the last joint towards goal ("creep", maxiter reached).
Oracles == {"stay", "solve", "creep"}
CreepStep == Rat(1, 2000)
Clip(x, limits) ==
    Force([i \in DOMAIN x |->
        IF ~ PiLe(limits[i][1], x[i]) THEN limits[i][1]
        ELSE IF ~ PiLe(x[i], limits[i][2]) THEN limits[i][2] ELSE x[i]])
Towards(x, goal, n) ==
    IF \E i \in 1..(n - 1) : x[i] # goal[i] THEN x
    ELSE IF RLt(CreepStep, RAbs(RSub(goal[n].r, x[n].r)))
    THEN [x EXCEPT ![n] = Num(RAdd(x[n].r, RMul(RSign(RSub(goal[n].r, x[n].r)), CreepStep)))]
    ELSE goal
minimize(oracle, x0, goal, limits) ==
    IF oracle = "stay" \/ goal = PyNone THEN Clip(x0, limits)
    ELSE IF oracle = "solve" THEN goal.joints
    ELSE CHOOSE r \in {Towards(x, goal.joints, Len(x0)) : x \in {Clip(x0, limits)}} : TRUE
\* The test of `while epoch < max_epochs and cost > tol_cost`.
WhileEnd(f) ==
    CHOOSE r \in {IF g.epoch < g.max /\ RLt(tol_cost, g.cost) THEN [g EXCEPT !.pc = "loop"]
                   ELSE [g EXCEPT !.pc = "done"] : g \in {f}} : TRUE
\* solveJacTransposed(joints, target, max_epochs, seed) up to its loop; goal
\* and oracle describe what optimize.minimize does in this run.  last holds
\* last_joints and last_cost (None before the first epoch); noise tells
\* whether the last epoch added noise, tested what its test read.
solveJacTransposed(self, joints, target, max_epochs, seed, oracle, goal) ==
    WhileEnd([fn |-> "solveJacTransposed", pc |-> "loop", joints |-> joints,
              target |-> target, max |-> max_epochs, seed |-> seed, oracle |-> oracle,
              goal |-> goal, limits |-> getJointsLimits(self), epoch |-> 0, draws |-> 0,
              last |-> PyNone,
              cost |-> cost_func(self, target, joints), noise |-> FALSE,
              tested |-> PyNone])
\* `if joint_diff < tol_joints and cost_diff < min_improvement`, with
\* joint_diff = norm(last_joints - joints) and cost_diff = cost - last_cost.
JacTransposedStalled(f) ==
    /\ f.last # PyNone
    /\ JointsCloser(f.last.joints, f.joints, tol_joints)
    /\ RLt(RSub(f.cost, f.last.cost), min_improvement)
JacTransposedStart(f) ==
    IF JacTransposedStalled(f)
    THEN {JointsAdd(f.joints, rng_uniform(f.seed, f.draws, pick)) : pick \in Picks}
    ELSE {f.joints}
JacTransposedAdvance(self, f, joints, res_x) ==
    [f EXCEPT !.epoch = f.epoch + 1, !.last = [joints |-> joints, cost |-> f.cost],
              !.joints = res_x, !.cost = cost_func(self, f.target, res_x),
              !.draws = IF JacTransposedStalled(f) THEN f.draws + 1 ELSE f.draws,
              !.noise = JacTransposedStalled(f),
              !.tested = [last |-> f.last, joints |-> f.joints, cost |-> f.cost]]
JacTransposedMinimize(self, f, joints) ==
    CHOOSE r \in {JacTransposedAdvance(self, f, joints, res_x) :
                     res_x \in {minimize(f.oracle, joints, f.goal, f.limits)}} : TRUE
\* One epoch of the loop of solveJacTransposed.
JacTransposedEpoch(self, f) ==
    {WhileEnd(JacTransposedMinimize(self, f, joints)) : joints \in JacTransposedStart(f)}

\* What optimize.minimize converges to when it converges: the joints that
\* reach the target, when there are such joints inside the limits.
MinimizerGoal(self, sol) ==
    IF sol.kind = "val" /\ sol.v.nb_sols # 0
       /\ (\A i \in DOMAIN sol.v.joints : IsPiNum(sol.v.joints[i]))
       /\ (\A i \in DOMAIN sol.v.joints :
              /\ PiLe(getJointsLimits(self)[i][1], sol.v.joints[i])
              /\ PiLe(sol.v.joints[i], getJointsLimits(self)[i][2]))
    THEN [joints |-> sol.v.joints] ELSE PyNone

\* RobotModel.computeMGI(joints, target, method, max_steps, seed): what it
\* returns at once (ret), and the solver runs it starts (runs), made twice
\* to compare two runs of the same call.
MGIMethods == {"analyticalMGI", "jacobianInverse", "jacobianTransposed"}
JointsOf(sol) == IF sol.kind = "val" THEN Val(sol.v.joints) ELSE sol
Twice(f) == <<f, f>>
Finished(runs) == \A i \in DOMAIN runs : runs[i].pc = "done"
Returned(runs) == IF Finished(runs) THEN Val(runs[1].joints) ELSE None
\* computeMGI without its last line: an unknown method falls through to the
\* inverse Jacobian solver.
computeMGI_NoRaise(self, joints, target, method, max_steps, seed, oracle) ==
    IF method = "analyticalMGI"
    THEN [ret |-> JointsOf(analyticalMGI(self, target)), runs |-> <<>>]
    ELSE [ret |-> None,
          runs |-> Twice(solveJacInverse(joints, target, max_steps, Rat(1, 1000000), seed))]
computeMGI(self, joints, target, method, max_steps, seed, oracle) ==
    CASE method = "analyticalMGI" ->
            [ret |-> JointsOf(analyticalMGI(self, target)), runs |-> <<>>]
      [] method = "jacobianInverse" ->
            [ret |-> None,
             runs |-> Twice(solveJacInverse(joints, target, max_steps, Rat(1, 1000000), seed))]
      [] method = "jacobianTransposed" ->
            [ret |-> None,
             runs |-> Twice(solveJacTransposed(self, joints, target, max_steps, seed, oracle,
                                               MinimizerGoal(self, analyticalMGI(self, target))))]
      [] OTHER -> [ret |-> Raise("RuntimeError"), runs |-> <<>>]

(***************************************************************************)
(* buildTrajectory and RobotTrajectory.  An array is written               *)
(* [ndim |-> 1, a |-> values] or [ndim |-> 2, a |-> rows]; parameters is   *)
(* PyNone or a record whose fields are the keys of the dictionary.         *)
(***************************************************************************)
Array1(a) == [ndim |-> 1, a |-> a]
Array2(a) == [ndim |-> 2, a |-> a]
IsNone(x) == "none" \in DOMAIN x

\* Spline.__init__ on an array: knots[n-1, 0] of a 1-D array is an
\* IndexError; updatePolynomials fails on its assert or in np.linalg.solve.
SplineOutcome(S) ==
    IF S.ok THEN Val(S)
    ELSE IF \/ S.type = "CubicCustomDerivativeSpline" /\ Len(S.knots[1]) < 3
            \/ S.type = "CubicWideStencilSpline" /\ S.n < 4
    THEN Raise("AssertionError")
    ELSE Raise("LinAlgError")
SplineOnArray(type, knots, start) ==
    IF knots.ndim = 1 THEN Raise("IndexError")
    ELSE SplineOutcome(Spline(type, knots.a, start))

\* TrapezoidalVelocity.__init__ on an array: with rows for knots, D is an
\* array of two numbers and `if abs(self.D) > ...` is a ValueError.
TrapezoidalOnArray(knots, vMax, accMax, start) ==
    IF knots.ndim = 2 THEN Raise("ValueError")
    ELSE Val(TrapezoidalVelocity(<<knots.a[1], knots.a[2]>>, vMax, accMax, start))

\* The trajectory a type_name and parameters select when nothing is checked:
\* a ConstantSpline for an unknown name, unit rates for missing parameters.
buildTrajectory_Lenient(type_name, start, knots, parameters) ==
    IF type_name = "TrapezoidalVelocity"
    THEN TrapezoidalOnArray(knots, One, One, start)
    ELSE SplineOnArray(IF type_name \in SplineTypes THEN type_name ELSE "ConstantSpline",
                       knots, start)

buildTrajectory(type_name, start, knots, parameters) ==
    IF type_name \in SplineTypes THEN SplineOnArray(type_name, knots, start)
    ELSE IF type_name = "TrapezoidalVelocity" THEN
        IF IsNone(parameters) THEN Raise("RuntimeError")
        ELSE IF "vel_max" \notin DOMAIN parameters \/ "acc_max" \notin DOMAIN parameters
        THEN Raise("KeyError")
        ELSE TrapezoidalOnArray(knots, parameters.vel_max, parameters.acc_max, start)
    ELSE Raise("RuntimeError")

\* A vector of numbers read as joints, and joints written into an array of
\* numbers.  The angles of the model's trajectories are whole quarter turns.
AsJoints(value) == [i \in DOMAIN value |-> Num(value[i])]
AsNumbers(q) == [i \in DOMAIN q |-> PiValue(q[i])]

\* A list of outcomes as one outcome: the list of the values, or the first
\* exception.
Outcomes(list) ==
    IF \E i \in DOMAIN list : list[i].kind = "raise"
    THEN list[CHOOSE i \in DOMAIN list :
                 /\ list[i].kind = "raise"
                 /\ \A j \in 1..(i - 1) : list[j].kind # "raise"]
    ELSE Val([i \in DOMAIN list |-> list[i].v])

supported_spaces == {"operational", "joint"}
getOperationalDimensionNames(self) ==
    CASE self.name = "RobotRT" -> <<"x", "y">>
      [] self.name = "RobotRRR" -> <<"x", "y", "z">>
      [] OTHER -> <<"x", "y", "z", "r32">>
getNbJoints(self) == Len(getJointsLimits(self))

\* targets[i, begin:] of row i, and the row with that part replaced.
RowTarget(row, time_info) == IF time_info THEN Tail(row) ELSE row
RowWith(row, time_info, target) == IF time_info THEN <<row[1]>> \o target ELSE target

\* analyticalMGI(value)[1]: the joints as numbers, or None.
FirstOf(sol) ==
    IF sol.kind = "raise" THEN sol
    ELSE IF sol.v.none THEN None
    ELSE Val(AsNumbers(sol.v.joints))
FirstSolution(model, value) == FirstOf(analyticalMGI(model, value))

\* Writing None into the array of numbers is a TypeError.
RowAssign(row, time_info, target) ==
    IF target.kind = "raise" THEN target
    ELSE IF target.kind = "none" THEN Raise("TypeError")
    ELSE Val(RowWith(row, time_info, target.v))
\* Lines 526-529 for one row: the converted row, or the exception raised.
ConvertRow(model, row, time_info, planification_space) ==
    IF planification_space = "joint"
    THEN RowAssign(row, time_info, FirstSolution(model, RowTarget(row, time_info)))
    ELSE Val(RowWith(row, time_info,
                     computeMGD(model, AsJoints(RowTarget(row, time_info)))))

\* The loop of lines 523-529: the converted targets, or the first exception.
ConvertTargets(model, targets, time_info, planification_space) ==
    Outcomes([i \in DOMAIN targets |->
                 ConvertRow(model, targets[i], time_info, planification_space)])

\* The loop working on a copy of the array: the caller's array is left as
\* it was.
TargetsLeft_Copy(model, targets, time_info, planification_space) == targets
\* The caller's array after the loop of lines 523-529, which assigns
\* targets[i, begin:] in place: the rows before the first one whose
\* conversion raises are converted, the others are as they were.
TargetsLeft(model, targets, time_info, planification_space) ==
    [i \in DOMAIN targets |->
        IF \A j \in 1..i :
              ConvertRow(model, targets[j], time_info, planification_space).kind = "val"
        THEN ConvertRow(model, targets[i], time_info, planification_space).v
        ELSE targets[i]]

\* Lines 534-539: the knots of dimension i (i = 1 is the code's i = 0).
DimKnots(targets, time_info, i) ==
    IF time_info
    THEN Array2([k \in DOMAIN targets |-> <<targets[k][1], targets[k][i + 1]>>])
    ELSE Array1([k \in DOMAIN targets |-> targets[k][i]])

\* Lines 542-544: the object with one more trajectory, or with the
\* exception that ended the constructor (exc is "" when it returned).
WithTrajectory(self, built) ==
    IF built.kind = "raise" THEN [self EXCEPT !.exc = built.exc]
    ELSE [self EXCEPT !.trajectories = Append(@, built.v),
                      !.end = IF RLt(@, built.v.end) THEN built.v.end ELSE @]

\* The loop of lines 533-544 from dimension i on.
RECURSIVE BuildDimensions(_, _, _, _, _, _)
BuildDimensions(self, i, targets, time_info, trajectory_type, parameters) ==
    IF i > self.nb_dim \/ self.exc # "" THEN self
    ELSE CHOOSE r \in {BuildDimensions(next, i + 1, targets, time_info, trajectory_type,
                                       parameters) :
                         next \in {WithTrajectory(self,
                                       buildTrajectory(trajectory_type, self.start,
                                           DimKnots(targets, time_info, i), parameters))}} : TRUE

\* Lines 505-509.
NewRobotTrajectory(model, planification_space, start, nb_dim) ==
    [type |-> "RobotTrajectory", exc |-> "", model |-> model,
     planification_space |-> planification_space, trajectories |-> <<>>,
     start |-> start, end |-> start, nb_dim |-> nb_dim]

\* Lines 522-544, on the targets as the conversion left them.
BuildConverted(self, converted, time_info, trajectory_type, parameters) ==
    IF converted.kind = "raise" THEN [self EXCEPT !.exc = converted.exc]
    ELSE BuildDimensions(self, 1, converted.v, time_info, trajectory_type, parameters)

\* Lines 518-544.
BuildWithTime(self, time_info, targets, trajectory_type, target_space, parameters) ==
    BuildConverted(self,
                   IF target_space # self.planification_space
                   THEN ConvertTargets(self.model, targets, time_info,
                                       self.planification_space)
                   ELSE Val(targets),
                   time_info, trajectory_type, parameters)

\* The constructor from line 505 on.
RobotTrajectory_Unchecked(model, targets, trajectory_type, target_space, planification_space, start, parameters) ==
    CHOOSE r \in {BuildWithTime(NewRobotTrajectory(model, planification_space, start, nb_dim),
                                Len(targets[1]) = nb_dim + 1, targets, trajectory_type,
                                target_space, parameters) :
                     nb_dim \in {IF target_space = "joint" THEN getNbJoints(model)
                                 ELSE Len(getOperationalDimensionNames(model))}} : TRUE

\* An object whose constructor raised before line 505.
NotBuilt(exc) == [type |-> "RobotTrajectory", exc |-> exc, trajectories |-> <<>>]

\* RobotTrajectory.__init__: the object as the constructor leaves it.
RobotTrajectory(model, targets, trajectory_type, target_space, planification_space, start, parameters) ==
    IF ~ (target_space \in supported_spaces /\ planification_space \in supported_spaces)
    THEN NotBuilt("AssertionError")
    ELSE RobotTrajectory_Unchecked(model, targets, trajectory_type, target_space,
                                   planification_space, start, parameters)

getPlanificationVal(self, t, degree) ==
    Outcomes([i \in 1..Len(self.trajectories) |-> getVal(self.trajectories[i], t, degree)])

\* `return value` in the planification space, the conversion otherwise.
ToOperational(self, value) ==
    IF value.kind = "raise" \/ self.planification_space = "operational" THEN value
    ELSE Val(computeMGD(self.model, AsJoints(value.v)))
ToJoint(self, value) ==
    IF value.kind = "raise" \/ self.planification_space = "joint" THEN value
    ELSE FirstSolution(self.model, value.v)

getOperationalTarget(self, t) == ToOperational(self, getPlanificationVal(self, t, 0))
getJointTarget(self, t) == ToJoint(self, getPlanificationVal(self, t, 0))

\* The product of a 2x2 matrix and a vector, and np.linalg.pinv of a 2x2
\* matrix: the inverse, or for a matrix of rank one its transpose over the
\* sum of the squares of its entries.
Mat2Vec(A, v) ==
    <<RAdd(RMul(A[1][1], v[1]), RMul(A[1][2], v[2])),
      RAdd(RMul(A[2][1], v[1]), RMul(A[2][2], v[2]))>>
Det2(A) == RSub(RMul(A[1][1], A[2][2]), RMul(A[1][2], A[2][1]))
Frobenius2(A) ==
    RAdd(RAdd(RMul(A[1][1], A[1][1]), RMul(A[1][2], A[1][2])),
         RAdd(RMul(A[2][1], A[2][1]), RMul(A[2][2], A[2][2])))
Inverse2(A, det) ==
    << <<RDiv(A[2][2], det), RDiv(RNeg(A[1][2]), det)>>,
       <<RDiv(RNeg(A[2][1]), det), RDiv(A[1][1], det)>> >>
Transpose2Over(A, f) ==
    << <<RDiv(A[1][1], f), RDiv(A[2][1], f)>>, <<RDiv(A[1][2], f), RDiv(A[2][2], f)>> >>
linalg_pinv(A) ==
    IF Det2(A) # Zero THEN Inverse2(A, Det2(A))
    ELSE IF Frobenius2(A) = Zero THEN A
    ELSE Transpose2Over(A, Frobenius2(A))

\* computeJacobian(None) is a TypeError: None has no joints[0].
JacobianAt(self, q) ==
    IF q.kind = "raise" THEN q
    ELSE IF q.kind = "none" THEN Raise("TypeError")
    ELSE Val(computeJacobian(self.model, AsJoints(q.v)))
VelocityToOperational(self, value, J) ==
    IF value.kind = "raise" \/ self.planification_space = "operational" THEN value
    ELSE IF J.kind = "raise" THEN J
    ELSE Val(Mat2Vec(J.v, value.v))
VelocityToJoint(self, value, J) ==
    IF value.kind = "raise" \/ self.planification_space = "joint" THEN value
    ELSE IF J.kind = "raise" THEN J
    ELSE Val(Mat2Vec(linalg_pinv(J.v), value.v))

getOperationalVelocity(self, t) ==
    VelocityToOperational(self, getPlanificationVal(self, t, 1),
                          JacobianAt(self, getJointTarget(self, t)))
getJointVelocity(self, t) ==
    VelocityToJoint(self, getPlanificationVal(self, t, 1),
                    JacobianAt(self, getJointTarget(self, t)))
getOperationalAcc(self, t) == ToOperational(self, getPlanificationVal(self, t, 2))
getJointAcc(self, t) == ToJoint(self, getPlanificationVal(self, t, 2))

\* Lines 571-579: value, None when no branch assigns it.
CrossSpaceValue(self, t, degree, space) ==
    CASE space = "operational" /\ degree = 0 -> getOperationalTarget(self, t)
      [] space = "operational" /\ degree = 1 -> getOperationalVelocity(self, t)
      [] space = "operational" /\ degree = 2 -> getOperationalAcc(self, t)
      [] space = "joint" /\ degree = 0 -> getJointTarget(self, t)
      [] space = "joint" /\ degree = 1 -> getJointVelocity(self, t)
      [] space = "joint" /\ degree = 2 -> getJointAcc(self, t)
      [] OTHER -> None

\* Lines 581-583.
ValueAt(value, dim) == IF value.kind = "val" THEN Val(value.v[dim + 1]) ELSE value

\* RobotTrajectory.getVal; dim counts from 0.
RobotTrajectory_getVal(self, t, dim, degree, space) ==
    IF space = self.planification_space
    THEN getVal(self.trajectories[dim + 1], t, degree)
    ELSE ValueAt(CrossSpaceValue(self, t, degree, space), dim)

\* Lines 40-43 once getRobotModel has returned or raised.
FromModel(model, dic) ==
    IF model.kind = "raise" THEN NotBuilt(model.exc)
    ELSE RobotTrajectory(model.v, dic.targets, dic.trajectory_type, dic.target_space,
                         dic.planification_space, dic.start, dic.parameters)
buildRobotTrajectoryFromDictionary(dic) == FromModel(getRobotModel(dic.model_name), dic)

\* The array `targets` handed to RobotTrajectory.__init__, as the
\* constructor leaves it to its caller.
TargetsAfterInit(model, targets, target_space, planification_space) ==
    IF ~ (target_space \in supported_spaces /\ planification_space \in supported_spaces)
    THEN targets
    ELSE IF target_space = planification_space THEN targets
    ELSE TargetsLeft(model, targets,
                     Len(targets[1]) = 1 + (IF target_space = "joint" THEN getNbJoints(model)
                                            ELSE Len(getOperationalDimensionNames(model))),
                     planification_space)
\* The array np.array(dic["targets"]) of line 41 after the call.
TargetsAfter(model, dic) ==
    IF model.kind = "raise" THEN dic.targets
    ELSE TargetsAfterInit(model.v, dic.targets, dic.target_space, dic.planification_space)

(***************************************************************************)
(* The 1-D trajectories the model builds and the queries it makes.         *)
(***************************************************************************)
MaxKnots == 4       \* a spline has 2..MaxKnots knots
MaxStart == 1       \* start is one of 0..MaxStart
MaxDeg == 4         \* derivative orders 0..MaxDeg
MaxQuery == 6       \* query times are the half integers of -1..MaxQuery
MaxRate == 2        \* vMax and accMax are among 1..MaxRate
MaxPos == 2         \* the trapezoid's x_src and x_end are among 0..MaxPos
MaxShift == 2       \* a query is compared with those 1..MaxShift periods away

\* Knot times: 0,1,2,..  or  1,2,3,..  or  0,1,3,4,6,.. (steps 1 and 2).
KnotTime(pattern, i) ==
    CASE pattern = "unit" -> i - 1
      [] pattern = "late" -> i
      [] pattern = "uneven" -> (3 * (i - 1) + 1) \div 2
TimePatterns == {"unit", "late", "uneven"}

\* Knot values (a + b (i-1)) mod 3: constant, rising and wrapping rows.
KnotValue(a, b, i) == (a + b * (i - 1)) % 3

KnotSets ==
    {[i \in 1..n |-> <<I(KnotTime(pat, i)), I(KnotValue(a, b, i))>>] :
        n \in 2..MaxKnots, pat \in TimePatterns, a \in 0..1, b \in 0..2}

\* Knots with a velocity column (all rows the same velocity).
KnotSetsWithVelocity ==
    {[i \in 1..Len(k) |-> <<k[i][1], k[i][2], I(v)>>] : k \in KnotSets, v \in 0..1}

Splines ==
    {S \in {Spline(type, k, I(s)) :
                type \in SplineTypes \ {"CubicCustomDerivativeSpline"},
                k \in KnotSets, s \in 0..MaxStart}
          \cup {Spline("CubicCustomDerivativeSpline", k, I(s)) :
                k \in KnotSetsWithVelocity, s \in 0..MaxStart} : S.ok}

\* The trapezoids whose Tacc is a rational number.
Trapezoids ==
    {TrapezoidalVelocity(<<I(a), I(b)>>, I(v), I(acc), I(s)) :
        <<a, b, v, acc, s>> \in
            {q \in (0..MaxPos) \X (0..MaxPos) \X (1..MaxRate) \X (1..MaxRate)
                    \X (0..MaxStart) :
                \/ q[3] * q[3] < Abs(q[2] - q[1]) * q[4]
                \/ RIsSquare(Rat(Abs(q[2] - q[1]), q[4]))}}

QueryTimes == {Rat(k, 2) : k \in (-2)..(2 * MaxQuery)}
Degrees == 0..MaxDeg

NoQuery == [t |-> Zero, d |-> -1]
NoCall == [op |-> "none", arg |-> <<>>]
NoTraj == [type |-> "none"]

\* The variables of the robot models, at rest.
RobotIdle == robot = "none" /\ call = NoCall /\ out = None

TrajInit ==
    /\ traj \in Splines \cup Trapezoids
    /\ query = NoQuery
    /\ ret = None
    /\ RobotIdle

\* A caller asks for the derivative of order d at time t; the call returns
\* (or raises) before the single-threaded caller goes on.
GetVal(t, d) ==
    /\ query = NoQuery
    /\ query' = [t |-> t, d |-> d]
    /\ ret' = getVal(traj, t, d)
    /\ traj' = AfterGetVal(traj, t, d)
    /\ UNCHANGED robotVars

\* The caller has used the result and is free to ask again.
Consume ==
    /\ query # NoQuery
    /\ query' = NoQuery
    /\ ret' = None
    /\ UNCHANGED <<traj, robotVars>>

TrajNext ==
    \/ \E t \in QueryTimes, d \in Degrees : GetVal(t, d)
    \/ Consume

SpecTraj == TrajInit /\ [][TrajNext]_vars

(***************************************************************************)
(* The robot models: the calls made on a model and what they give back.    *)
(***************************************************************************)
MaxTurn == 2
MaxSlide == 11
\* The joint vectors of the calls: angles of whole quarter turns, lengths of
\* whole twentieths.
Joints(name) ==
    LET Turns == {PiNum(k, Zero) : k \in (-MaxTurn)..MaxTurn}
        Slides == {Num(Rat(j, 20)) : j \in 0..MaxSlide}
    IN  CASE name = "RobotRT" -> {<<a, b>> : a \in Turns, b \in Slides}
          [] name = "RobotRRR" -> {<<a, b, c>> : a \in Turns, b \in Turns, c \in Turns}
          [] OTHER -> {<<a, b, c, d>> : a \in Turns, b \in Turns, c \in Turns, d \in Turns}
InLimits(self, q) ==
    \A i \in 1..Len(q) :
        PiLe(getJointsLimits(self)[i][1], q[i]) /\ PiLe(q[i], getJointsLimits(self)[i][2])

OtherTargets(name) ==
    LET LegPlanar ==
            { <<Zero, Zero>>, <<Rat(3, 25), Zero>>, <<Zero, Rat(3, 25)>>,
              <<Rat(-1, 15), Zero>>, <<Rat(9, 125), Rat(12, 125)>> }
        LegPitch == {Zero, Rat(3, 5), Rat(-4, 5), One, RNeg(One), I(2), I(-2)}
    IN  CASE name = "RobotRT" -> {<<Zero, Zero>>, <<One, One>>, <<Rat(11, 40), Rat(2, 10)>>}
          [] name = "RobotRRR" ->
                {<<Zero, Zero, RAdd(RRR.L0, Rat(4, 10))>>, <<Zero, Zero, I(5)>>,
                 <<Rat(3, 10), Rat(4, 10), RRR.L0>>}
          [] OTHER ->
                {<<p[1], p[2], RAdd(Leg.L0, z), r>> :
                    p \in LegPlanar, z \in {Zero, Rat(3, 10)}, r \in LegPitch}
\* The targets whose solution the model computes exactly: the square roots
\* analyticalMGI takes (the norm of the target, sqrt(dist^2 - L2^2) of
\* RobotRT, the length of (W, norm) and cos(asin(r32)) of LegRobot) are
\* rational, or the target is rejected before they are used.
Exact(self, target) ==
    LET norm2 == RAdd(RMul(target[1], target[1]), RMul(target[2], target[2]))
    IN  CASE self.name = "RobotRT" ->
                \/ RLt(norm2, RAdd(RMul(self.L1, self.L1), RMul(self.L2, self.L2)))
                \/ RLt(RAdd(RMul(RAdd(self.L1, self.max_q1), RAdd(self.L1, self.max_q1)),
                            RMul(self.L2, self.L2)), norm2)
                \/ RIsSquare(RSub(norm2, RMul(self.L2, self.L2)))
          [] self.name = "RobotRRR" -> RIsSquare(norm2)
          [] OTHER ->
                \/ RLt(norm2, RMul(self.W, self.W))
                \/ RLt(One, RAbs(target[4]))
                \/ /\ RIsSquare(norm2)
                   /\ RIsSquare(RAdd(RMul(self.W, self.W), norm2))
                   /\ RIsSquare(RSub(One, RMul(target[4], target[4])))
NoJoints == <<>>
\* The arguments of the direct calls of cosineLaw.
PlanarInputs ==
    {<<x, y, L[1], L[2]>> :
        x \in {Zero, Rat(3, 10), Rat(-3, 5), Rat(29, 40), One},
        y \in {Zero, Rat(3, 10), Rat(-3, 5), Rat(29, 40), One},
        L \in {<<Leg.L2, Leg.L3>>, <<RRR.L2, RRR.L3>>}}
RobotInit ==
    /\ robot \in {getRobotModel(name).v : name \in RobotNames}
    /\ call = NoCall
    /\ out = None
    /\ traj = NoTraj
    /\ query = NoQuery
    /\ ret = None

ComputeMGD(q) ==
    /\ call = NoCall
    /\ call' = [op |-> "computeMGD", arg |-> q]
    /\ out' = Val(computeMGD(robot, q))
    /\ UNCHANGED <<robot, trajVars>>

\* analyticalMGI(computeMGD(q)): the target is the image of the joints q.
RoundTrip(q) ==
    /\ call = NoCall
    /\ \E target \in {computeMGD(robot, q)} :
          /\ Exact(robot, target)
          /\ call' = [op |-> "analyticalMGI", arg |-> target, of |-> q]
          /\ out' = analyticalMGI(robot, target)
    /\ UNCHANGED <<robot, trajVars>>

\* analyticalMGI(target) of a target given directly (of = NoJoints).
AnalyticalMGI(target) ==
    /\ call = NoCall
    /\ Exact(robot, target)
    /\ call' = [op |-> "analyticalMGI", arg |-> target, of |-> NoJoints]
    /\ out' = analyticalMGI(robot, target)
    /\ UNCHANGED <<robot, trajVars>>

ComputeJacobian(q) ==
    /\ call = NoCall
    /\ call' = [op |-> "computeJacobian", arg |-> q]
    /\ out' = Val(computeJacobian(robot, q))
    /\ UNCHANGED <<robot, trajVars>>

CosineLaw(a) ==
    /\ call = NoCall
    /\ call' = [op |-> "cosineLaw", arg |-> a]
    /\ out' = cosineLaw(a[1], a[2], a[3], a[4])
    /\ UNCHANGED <<robot, trajVars>>

Return ==
    /\ call # NoCall
    /\ out.kind # "none"
    /\ call' = NoCall
    /\ out' = None
    /\ UNCHANGED <<robot, trajVars>>

RobotNext ==
    \/ \E q \in Joints(robot.name) : ComputeMGD(q)
    \/ \E q \in Joints(robot.name) : RoundTrip(q)
    \/ \E target \in OtherTargets(robot.name) : AnalyticalMGI(target)
    \/ \E q \in Joints(robot.name) : ComputeJacobian(q)
    \/ \E a \in PlanarInputs : CosineLaw(a)
    \/ Return

SpecRobot == RobotInit /\ [][RobotNext]_vars

(***************************************************************************)
(* The numerical solvers, on a RobotRT.  A call is run twice, side by      *)
(* side, with the same arguments; out is what the first run returns.  The  *)
(* joints and targets are those the model computes exactly: the target is  *)
(* the image of joints of the same turn as the initial joints, so that the *)
(* error lies along the slide.                                             *)
(***************************************************************************)
MaxSteps == 3       \* max_steps and max_epochs are among 0..MaxSteps
MaxSeed == 1        \* seed is None or one of 0..MaxSeed
SolverTurns == {PiNum(0, Zero), PiNum(1, Zero)}
SolverJoints == {<<a, Num(r)>> : a \in SolverTurns, r \in {Rat(-1, 5), Zero, Rat(1, 10), One}}
SolverGoals == {<<a, Num(r)>> : a \in SolverTurns, r \in {Rat(1, 10), One}}
Seeds == {NoSeed} \cup {Seed(n) : n \in 0..MaxSeed}
\* Only solveJacTransposed calls optimize.minimize.
OraclesFor(method) == IF method = "jacobianTransposed" THEN Oracles ELSE {"stay"}
Methods == MGIMethods \cup {"newton"}

SolverInit ==
    /\ robot = getRobotModel("RobotRT").v
    /\ call = NoCall
    /\ out = None
    /\ traj = NoTraj
    /\ query = NoQuery
    /\ ret = None

\* computeMGI(joints, target, method, max_steps, seed), and the direct calls
\* of the solvers, which computeMGI makes with the same arguments.
ComputeMGI(joints, tq, method, max_steps, seed, oracle) ==
    /\ call = NoCall
    /\ joints[1] = tq[1]
    /\ \E target \in {computeMGD(robot, tq)} :
       \E r \in {computeMGI(robot, joints, target, method, max_steps, seed, oracle)} :
          /\ call' = [op |-> "computeMGI", method |-> method, joints |-> joints,
                      target |-> target, max_steps |-> max_steps, seed |-> seed,
                      runs |-> r.runs]
          /\ out' = IF r.runs = <<>> THEN r.ret ELSE Returned(r.runs)
    /\ UNCHANGED <<robot, trajVars>>

\* One more iteration of a run that is in its loop.
RunStep(self, f) ==
    IF f.pc = "done" THEN {f}
    ELSE IF f.fn = "solveJacInverse" THEN JacInverseIter(self, f)
    ELSE JacTransposedEpoch(self, f)
\* The runs that are in their loop make one iteration each.
SolverStep ==
    /\ call # NoCall
    /\ "runs" \in DOMAIN call
    /\ ~ Finished(call.runs)
    /\ \E r1 \in RunStep(robot, call.runs[1]), r2 \in RunStep(robot, call.runs[2]) :
          /\ call' = [call EXCEPT !.runs = <<r1, r2>>]
          /\ out' = Returned(<<r1, r2>>)
    /\ UNCHANGED <<robot, trajVars>>

SolverNext ==
    \/ \E joints \in SolverJoints, tq \in SolverGoals, method \in Methods,
          max_steps \in 0..MaxSteps, seed \in Seeds :
          \E oracle \in OraclesFor(method) :
            ComputeMGI(joints, tq, method, max_steps, seed, oracle)
    \/ SolverStep
    \/ Return

SpecSolver == SolverInit /\ [][SolverNext]_vars

\* The calls of solveJacInverse alone.  A solver that was called runs: its
\* loop is a sequential program that goes on to its next iteration as long
\* as it has one, hence the weak fairness of SolverStep.
JacInverseNext ==
    \/ \E joints \in SolverJoints, tq \in SolverGoals, max_steps \in 0..MaxSteps,
          seed \in Seeds :
            ComputeMGI(joints, tq, "jacobianInverse", max_steps, seed, "stay")
    \/ SolverStep
    \/ Return
SpecJacInverse ==
    /\ SolverInit
    /\ [][JacInverseNext]_vars
    /\ WF_vars(SolverStep)

(***************************************************************************)
(* Robot trajectories: the configurations the model builds one from and    *)
(* the queries it makes.  The model is a RobotRT whose turn stays 0 and    *)
(* whose tool stays on the line y = -L2, so that every conversion between  *)
(* the spaces is computed exactly.                                         *)
(***************************************************************************)
\* Time columns: 0,1,2 and -3,-2,-1 (knots that all lie before the start).
TimeColumns == {<<I(0), I(1), I(2)>>, <<I(-3), I(-2), I(-1)>>}
\* The slide q2 of the joint targets and the x of the operational targets;
\* x = 1 is out of the robot's reach.
SlideColumns == {<<Zero, Rat(1, 5), Zero>>, <<Rat(1, 5), Rat(1, 5), Rat(1, 5)>>}
XColumns == {<<Rat(2, 5), Rat(1, 5), Rat(2, 5)>>, <<Rat(2, 5), One, Rat(2, 5)>>}
TargetColumns(space) ==
    IF space = "operational"
    THEN {[i \in 1..3 |-> <<x[i], RNeg(RT.L2)>>] : x \in XColumns}
    ELSE {[i \in 1..3 |-> <<Zero, q[i]>>] : q \in SlideColumns}
\* Two rows without the time column, three rows with it.
TargetSets(space) ==
    {[i \in 1..2 |-> <<c[i][1], c[i][2]>>] : c \in TargetColumns(space)}
    \cup {[i \in 1..3 |-> <<tm[i], c[i][1], c[i][2]>>] :
            c \in TargetColumns(space), tm \in TimeColumns}
TrajectoryTypes ==
    {"ConstantSpline", "LinearSpline", "CubicZeroDerivativeSpline",
     "TrapezoidalVelocity", "QuinticSpline"}
Spaces == {"joint", "operational", "cartesian"}
ParameterSets ==
    {PyNone, [vel_max |-> Rat(1, 5)], [vel_max |-> Rat(1, 5), acc_max |-> One]}
DictionariesOf(ts) ==
    {[model_name |-> mn, targets |-> tg, trajectory_type |-> ty, target_space |-> ts,
      planification_space |-> ps, start |-> I(st), parameters |-> pr] :
        mn \in {"RobotRT", "RobotXY"}, ty \in TrajectoryTypes,
        ps \in Spaces, st \in 0..MaxStart, pr \in ParameterSets,
        tg \in TargetSets(ts)}
Dictionaries == UNION {DictionariesOf(ts) : ts \in Spaces}
RobotQueryTimes == {Rat(k, 2) : k \in (-4)..4}
MaxDegree == 3      \* a robot trajectory is asked the derivatives 0..MaxDegree

RobotTrajInit ==
    /\ traj = NoTraj
    /\ query = NoQuery
    /\ ret = None
    /\ RobotIdle

\* buildTrajectory called directly, on the knots of one dimension.
BuildTrajectory ==
    /\ call = NoCall
    /\ traj = NoTraj
    /\ \E type_name \in TrajectoryTypes, parameters \in ParameterSets,
          targets \in TargetSets("joint") :
          /\ call' = [op |-> "buildTrajectory", type_name |-> type_name,
                      parameters |-> parameters, built |-> 0]
          /\ out' = buildTrajectory(type_name, Zero,
                                    DimKnots(targets, Len(targets[1]) = 3, 2), parameters)
    /\ UNCHANGED <<robot, trajVars>>

GetRobotModel ==
    /\ call = NoCall
    /\ traj = NoTraj
    /\ \E robot_name \in RobotNames \cup {"RobotXY"} :
          /\ call' = [op |-> "getRobotModel", robot_name |-> robot_name, built |-> 0]
          /\ out' = getRobotModel(robot_name)
    /\ UNCHANGED <<robot, trajVars>>

\* buildRobotTrajectoryFromDictionary(dic).  built is the number of 1-D
\* trajectories the constructor had built when it returned or raised,
\* targets the array it was given (dic.targets before the call) as the call
\* left it.
BuildRobotTrajectory ==
    /\ call = NoCall
    /\ traj = NoTraj
    /\ \E dic \in Dictionaries :
          \E self \in {buildRobotTrajectoryFromDictionary(dic)} :
             /\ call' = [op |-> "buildRobotTrajectoryFromDictionary", dic |-> dic,
                         built |-> Len(self.trajectories),
                         targets |-> TargetsAfter(getRobotModel(dic.model_name), dic)]
             /\ out' = IF self.exc = "" THEN Val(Zero) ELSE Raise(self.exc)
             /\ traj' = IF self.exc = "" THEN self ELSE NoTraj
             /\ robot' = IF self.exc = "" THEN self.model ELSE robot
    /\ UNCHANGED <<query, ret>>

\* The conversions of a query are those the model computes exactly: the
\* square root analyticalMGI takes of the planned point is rational.
ExactValue(model, value) == IF value.kind = "raise" THEN TRUE ELSE Exact(model, value.v)
ExactQuery(self, t, degree, space) ==
    (space = "joint" /\ self.planification_space = "operational" /\ degree \in 0..2) =>
        /\ ExactValue(self.model, getPlanificationVal(self, t, 0))
        /\ degree = 2 => ExactValue(self.model, getPlanificationVal(self, t, 2))

RobotGetVal ==
    /\ traj # NoTraj
    /\ call = NoCall
    /\ query = NoQuery
    /\ \E t \in RobotQueryTimes, dim \in 0..1, degree \in 0..MaxDegree, space \in Spaces :
          /\ ExactQuery(traj, t, degree, space)
          /\ query' = [t |-> t, d |-> degree, dim |-> dim, space |-> space]
          /\ ret' = RobotTrajectory_getVal(traj, t, dim, degree, space)
    /\ UNCHANGED <<traj, robotVars>>

RobotTrajNext ==
    \/ BuildRobotTrajectory
    \/ BuildTrajectory
    \/ GetRobotModel
    \/ RobotGetVal
    \/ Consume
    \/ Return

SpecRobotTraj == RobotTrajInit /\ [][RobotTrajNext]_vars

(***************************************************************************)
(* Properties of the 1-D trajectories (checked under SpecTraj)             *)
(***************************************************************************)
Asked == query # NoQuery
IsTrapezoid(T) == T.type = "TrapezoidalVelocity"
IsPeriodic(T) == T.type = "PeriodicCubicSpline"
StartPos(T) == IF IsTrapezoid(T) THEN T.x_src ELSE KX(T.knots, 1)
EndPos(T) == IF IsTrapezoid(T) THEN T.x_end ELSE KX(T.knots, T.n)
AtStart(T, d) == Val(IF d = 0 THEN StartPos(T) ELSE Zero)
AtEnd(T, d) == Val(IF d = 0 THEN EndPos(T) ELSE Zero)

C2_InteriorKnotValue ==
    (Asked /\ ~IsTrapezoid(traj) /\ query.d = 0) =>
        \A i \in 2..(traj.n - 1) :
            query.t = RAdd(traj.start, KT(traj.knots, i))
                => ret = Val(KX(traj.knots, i))

\* The zones of the trapezoid at relative time u, as the documentation gives
\* them: accel on [0, Tacc], cruise between Tacc and T - Tacc, decel on
\* [T - Tacc, T].  At a time where two zones meet the value of either zone
\* is accepted, so that only the choice of the time origin is at stake.
TrapezoidZoneValues(T, u, d) ==
    LET sgn == RSign(T.D)
        TT == RSub(T.end, T.start)
        accel == IF d = 0 THEN RAdd(T.x_src, RDiv(RMul(sgn, RMul(T.accMax, RMul(u, u))), I(2)))
                 ELSE IF d = 1 THEN RMul(sgn, RMul(T.accMax, u))
                 ELSE RMul(sgn, T.accMax)
        cruise == IF d = 0 THEN RAdd(T.x_src, RMul(sgn, RAdd(T.Dacc, RMul(T.vMax, RSub(u, T.Tacc)))))
                  ELSE IF d = 1 THEN RMul(sgn, T.vMax)
                  ELSE Zero
        decel == IF d = 0 THEN RSub(T.x_end, RDiv(RMul(sgn, RMul(T.accMax, RMul(RSub(TT, u), RSub(TT, u)))), I(2)))
                 ELSE IF d = 1 THEN RMul(sgn, RMul(T.accMax, RSub(TT, u)))
                 ELSE RNeg(RMul(sgn, T.accMax))
    IN  (IF RLe(Zero, u) /\ RLe(u, T.Tacc) THEN {accel} ELSE {})
        \cup (IF RLe(T.Tacc, u) /\ RLe(u, RSub(TT, T.Tacc)) THEN {cruise} ELSE {})
        \cup (IF RLe(RSub(TT, T.Tacc), u) /\ RLe(u, TT) THEN {decel} ELSE {})

\* C3 as stated: a trapezoid with any start offset s, asked at s <= t <= end
\* for d in {0, 1, 2}, returns the zone formula at the relative time t - s.
C3_ZoneFormulaAtRelativeTime ==
    (/\ Asked /\ IsTrapezoid(traj) /\ query.d \in 0..2
     /\ RLe(traj.start, query.t) /\ RLe(query.t, traj.end))
        => /\ ret.kind = "val"
           /\ ret.v \in TrapezoidZoneValues(traj, RSub(query.t, traj.start), query.d)

\* C4 as stated: the position at T.start is the first knot's value and the
\* position at T.end is the last knot's value (for a periodic spline, whose
\* end wraps onto its start, the first knot's value).
C4_EndpointValues ==
    (Asked /\ query.d = 0) =>
        /\ query.t = traj.start => ret = Val(StartPos(traj))
        /\ query.t = traj.end =>
               ret = Val(IF IsPeriodic(traj) THEN StartPos(traj) ELSE EndPos(traj))

\* C5 as stated: for every robot model and every joint vector q inside the
\* limits of getJointsLimits(), analyticalMGI(computeMGD(q)) returns a
\* solution count that is not zero (and, for RobotRT, whose solution the
\* model computes as numbers, joints whose image by computeMGD is the target).
C5_RoundTripHasSolution ==
    (/\ call.op = "analyticalMGI"
     /\ call.of # NoJoints
     /\ InLimits(robot, call.of))
        => /\ out.kind = "val"
           /\ out.v.nb_sols # 0
           /\ robot.name = "RobotRT" => RT_computeMGD(robot, out.v.joints) = call.arg

\* C6 as stated: for every robot model and every target, analyticalMGI
\* returns normally; it never raises an exception.
C6_AnalyticalMGINeverRaises ==
    call.op = "analyticalMGI" => out.kind = "val"

\* C10 as stated: for every trapezoid and every t, |getVal(t, 1)| <= vMax
\* and |getVal(t, 2)| <= accMax.
C10_VelocityAndAccelerationBounds ==
    (Asked /\ IsTrapezoid(traj)) =>
        /\ query.d = 1 => RLe(RAbs(ret.v), traj.vMax)
        /\ query.d = 2 => RLe(RAbs(ret.v), traj.accMax)

C14_GetValKeepsSpline ==
    [][(~ IsTrapezoid(traj) /\ query'.d # -1) =>
           /\ traj' = traj
           /\ ret' = getVal(traj', query'.t, query'.d)]_vars

\* C14 witness: a spline has answered a query for a derivative inside one
\* of its segments, where getVal shifts the coefficients it read.
C14_Witness ==
    /\ Asked
    /\ ~ IsTrapezoid(traj)
    /\ query.d >= 1
    /\ RLt(traj.start, query.t) /\ RLt(query.t, traj.end)
    /\ Segments(traj, query.t) # {}
    /\ ret.kind = "val"
    /\ ret.v # Zero

\* The value C20 gives for the derivative of order d at local time u of the
\* segment whose coefficients are c = (c0, c1, c2, c3).
SegmentFormula(c, u, d) ==
    CASE d = 0 -> RAdd(RAdd(c[1], RMul(c[2], u)),
                       RAdd(RMul(c[3], RMul(u, u)), RMul(c[4], RMul(u, RMul(u, u)))))
      [] d = 1 -> RAdd(c[2], RAdd(RMul(I(2), RMul(c[3], u)), RMul(I(3), RMul(c[4], RMul(u, u)))))
      [] d = 2 -> RAdd(RMul(I(2), c[3]), RMul(I(6), RMul(c[4], u)))
      [] d = 3 -> RMul(I(6), c[4])
      [] OTHER -> Zero

C21_OneSegmentInside ==
    (/\ Asked
     /\ ~ IsTrapezoid(traj)
     /\ RLt(traj.start, query.t) /\ RLt(query.t, traj.end)
     /\ \A i \in 1..traj.n : KT(traj.knots, i) # RSub(query.t, traj.start))
        => /\ Cardinality(Segments(traj, query.t)) = 1
           /\ getPolynomial(traj, query.t).found
           /\ ret.kind = "val"

\* The solutions analyticalMGI collects in its list, for the models that
\* keep a list.
Collected(self, target) ==
    IF self.name = "RobotRRR"
    THEN Collect(<<RRR_forQ0(self, target, RRR_theta(target)),
                   RRR_forQ0(self, target, RayAdd(RRR_theta(target), PiTurn))>>)
    ELSE Leg_solutions(self, target, RayAdd(atan2(target[2], target[1]), PiNum(-1, Zero)),
                       atan2(self.W, RSqrt(RAdd(RMul(target[1], target[1]),
                                                RMul(target[2], target[2])))),
                       Ray(RSqrt(RSub(One, RMul(target[4], target[4]))), target[4]))

\* C11: analyticalMGI returns a pair (k, q) where q is None exactly when
\* k = 0; k = -1 only for RobotRRR on a target whose (x, y) is null and that
\* has a planar solution, and such a target gives k = -1; otherwise k is the
\* number of the solutions collected and q the first of them.
C11_SolutionCount ==
    (call.op = "analyticalMGI" /\ out.kind = "val") =>
        /\ out.v.none <=> out.v.nb_sols = 0
        /\ out.v.nb_sols >= -1
        /\ out.v.nb_sols = -1 => robot.name = "RobotRRR" /\ RRR_singularity(call.arg)
        /\ robot.name = "RobotRT" => out.v.nb_sols \in {0, 1}
        /\ (robot.name # "RobotRT" /\ ~ out.v.none) =>
               /\ out.v.joints = Collected(robot, call.arg).v[1]
               /\ out.v.nb_sols =
                      IF robot.name = "RobotRRR" /\ RRR_singularity(call.arg) THEN -1
                      ELSE Len(Collected(robot, call.arg).v)

\* C11 witness: RobotRRR has answered -1 with a solution for a target on the
\* axis of its first joint.
C11_Witness ==
    /\ call.op = "analyticalMGI"
    /\ robot.name = "RobotRRR"
    /\ RRR_singularity(call.arg)
    /\ out.kind = "val"
    /\ out.v.nb_sols = -1
    /\ ~ out.v.none

(***************************************************************************)
(* Properties of the numerical solvers (checked under SpecSolver)          *)
(***************************************************************************)
SolverCall(method) ==
    call.op = "computeMGI" /\ call.method = method /\ call.runs # <<>>
SolverReturned(method) == SolverCall(method) /\ Finished(call.runs)

\* C7 as stated: every joint vector returned by solveJacTransposed lies
\* within the limits of getJointsLimits(), whatever the initial joints, the
\* target, max_epochs and the seed, the calls whose loop is never entered
\* included.
C7_JacTransposedWithinLimits ==
    SolverReturned("jacobianTransposed") => InLimits(robot, out.v)

\* The arguments a solver run was started with, as its frame keeps them.
RunOf(f, fn, c) ==
    /\ f.fn = fn
    /\ f.target = c.target
    /\ f.max = c.max_steps
    /\ f.seed = c.seed
    /\ (IF fn = "solveJacInverse" THEN f.i = 0 ELSE f.epoch = 0) => f.joints = c.joints

\* C15: computeMGI gives method "analyticalMGI" to analyticalMGI and returns
\* its joint solution only, "jacobianInverse" to solveJacInverse and
\* "jacobianTransposed" to solveJacTransposed with the arguments of the
\* call; any other method raises RuntimeError and no solver runs.
C15_ComputeMGIRouting ==
    call.op = "computeMGI" =>
        CASE call.method = "analyticalMGI" ->
                 /\ call.runs = <<>>
                 /\ out = JointsOf(analyticalMGI(robot, call.target))
          [] call.method = "jacobianInverse" ->
                 /\ call.runs # <<>>
                 /\ \A i \in DOMAIN call.runs : RunOf(call.runs[i], "solveJacInverse", call)
          [] call.method = "jacobianTransposed" ->
                 /\ call.runs # <<>>
                 /\ \A i \in DOMAIN call.runs : RunOf(call.runs[i], "solveJacTransposed", call)
          [] OTHER ->
                 /\ call.runs = <<>>
                 /\ out.kind = "raise"
                 /\ out.exc = "RuntimeError"

\* C15 witness: a call with a method computeMGI does not know has raised
\* RuntimeError with no solver run started.
C15_Witness ==
    /\ call.op = "computeMGI"
    /\ call.method \notin MGIMethods
    /\ call.runs = <<>>
    /\ out.kind = "raise"

\* C17: two runs of solveJacInverse, or of solveJacTransposed, with the same
\* initial joints, target, iteration limit and the same seed (not None)
\* return the same joints, the runs that drew noise included.
C17_SeededRunsAgree ==
    (/\ call.op = "computeMGI"
     /\ call.runs # <<>>
     /\ call.seed # NoSeed
     /\ Finished(call.runs))
        => call.runs[1].joints = call.runs[2].joints

\* C17 witness: two seeded runs of a solver have returned after drawing
\* noise from their generators.
C17_Witness ==
    /\ call.op = "computeMGI"
    /\ call.runs # <<>>
    /\ call.seed # NoSeed
    /\ Finished(call.runs)
    /\ \A i \in DOMAIN call.runs : call.runs[i].draws > 0
    /\ out = Val(call.runs[2].joints)

\* The condition of the noise as C18 words it, on what the test of an epoch
\* read: a previous epoch exists, it changed the joints by less than 1e-3,
\* and it improved the cost (previous cost minus current cost) by less
\* than 1e-6.
StalledAsStated(tested) ==
    /\ tested.last # PyNone
    /\ JointsCloser(tested.last.joints, tested.joints, tol_joints)
    /\ RLt(RSub(tested.last.cost, tested.cost), min_improvement)

\* C18 as stated: an epoch of solveJacTransposed adds noise before its
\* minimization exactly when a previous epoch exists, changed the joints by
\* a norm < 1e-3 and improved the cost by less than 1e-6; an epoch that
\* improved the cost by 1e-6 or more is never followed by noise.
C18_NoiseExactlyWhenStalled ==
    SolverCall("jacobianTransposed") =>
        \A i \in DOMAIN call.runs :
            call.runs[i].tested # PyNone
                => (call.runs[i].noise <=> StalledAsStated(call.runs[i].tested))

\* What C19 says of a run of solveJacInverse at any time: it has made at
\* most max_steps iterations; when it stopped on its test, the error norm
\* of that iteration is < tol and its joints are those the iteration began
\* with; an iteration that went on had an error norm >= tol, and when the
\* Jacobian had an inverse it moved the joints by a norm <= 0.05.
JacInverseBounded(f) ==
    /\ f.i <= f.max
    /\ f.pc = "loop" => f.i < f.max
    /\ f.broke => /\ f.pc = "done"
                  /\ RLt(f.err, f.tol)
                  /\ f.joints = f.entry
    /\ (~ f.broke /\ f.i > 0) =>
           /\ ~ RLt(f.err, f.tol)
           /\ ~ f.noise =>
                  /\ \A j \in DOMAIN f.joints : f.joints[j].k = f.entry[j].k
                  /\ RLe(norm([j \in DOMAIN f.joints |-> RSub(f.joints[j].r, f.entry[j].r)]),
                         max_step_size)

\* C19: solveJacInverse returns after at most max_steps iterations, the
\* iterations that add noise on a singular Jacobian included; it stops at
\* the first iteration whose error norm is < tol and returns the joints of
\* that iteration unchanged; a step it makes with the inverse of the
\* Jacobian has a norm <= 0.05.
C19_JacInverseTerminates ==
    /\ [](SolverCall("jacobianInverse")
             => \A i \in DOMAIN call.runs : JacInverseBounded(call.runs[i]))
    /\ (SolverCall("jacobianInverse") ~> SolverReturned("jacobianInverse"))

\* C19 witness: a run of solveJacInverse has made two steps, the last one
\* of norm 0.05, and then stopped on an error norm < tol, returning the
\* joints that iteration began with.
C19_Witness ==
    /\ SolverReturned("jacobianInverse")
    /\ call.runs[1].broke
    /\ call.runs[1].i = 2
    /\ call.runs[1].moved = max_step_size
    /\ out = Val(call.runs[1].entry)

(***************************************************************************)
(* Properties of the robot trajectories (checked under SpecRobotTraj)      *)
(***************************************************************************)
RobotAsked == "space" \in DOMAIN query
IsRobotTrajectory(T) == T.type = "RobotTrajectory"

\* C8: RobotTrajectory.getVal(t, dim, degree, space) returns None for every
\* degree outside {0, 1, 2}, whatever t, dim and space are, the
\* planification space included.
C8_HigherDegreesUnavailable ==
    (RobotAsked /\ query.d \notin {0, 1, 2}) => ret.kind = "none"

\* C9: a query in the joint space of a trajectory planned in the operational
\* space, at a time where the planned point has no analytical solution,
\* returns None for the degrees 0, 1 and 2 and raises nothing.
C9_FailedConversionGivesNone ==
    (/\ RobotAsked
     /\ query.space = "joint"
     /\ traj.planification_space = "operational"
     /\ query.d \in {0, 1, 2}
     /\ getJointTarget(traj, query.t).kind = "none")
        => ret.kind = "none"

\* C13: the end of a RobotTrajectory is the largest end of its 1-D
\* trajectories: no 1-D trajectory ends later, and one of them ends then.
C13_EndIsMaxOfDimensions ==
    IsRobotTrajectory(traj) =>
        /\ \A i \in DOMAIN traj.trajectories : RLe(traj.trajectories[i].end, traj.end)
        /\ \E i \in DOMAIN traj.trajectories : traj.trajectories[i].end = traj.end

\* C16: a configuration error aborts the construction.  buildTrajectory
\* raises and returns no trajectory for an unknown type_name, and for
\* TrapezoidalVelocity with parameters None or without vel_max or acc_max;
\* getRobotModel raises for an unknown name; RobotTrajectory with a
\* target_space or planification_space other than 'joint' and 'operational'
\* raises before it has built any 1-D trajectory, and no object is left.
C16_ConfigurationErrorsAbort ==
    /\ (/\ call.op = "buildTrajectory"
        /\ \/ call.type_name \notin SplineTypes \cup {"TrapezoidalVelocity"}
           \/ /\ call.type_name = "TrapezoidalVelocity"
              /\ \/ IsNone(call.parameters)
                 \/ {"vel_max", "acc_max"} \ DOMAIN call.parameters # {})
          => out.kind = "raise"
    /\ (call.op = "getRobotModel" /\ call.robot_name \notin {"RobotRT", "RobotRRR", "LegRobot"})
          => out.kind = "raise"
    /\ (/\ call.op = "buildRobotTrajectoryFromDictionary"
        /\ \/ call.dic.model_name \notin {"RobotRT", "RobotRRR", "LegRobot"}
           \/ call.dic.target_space \notin {"joint", "operational"}
           \/ call.dic.planification_space \notin {"joint", "operational"})
          => /\ out.kind = "raise"
             /\ call.built = 0
             /\ traj = NoTraj

\* C16 witness: buildTrajectory was called with a type_name it does not
\* know and raised its RuntimeError.
C16_Witness ==
    /\ call.op = "buildTrajectory"
    /\ call.type_name = "QuinticSpline"
    /\ out.kind = "raise"
    /\ out.exc = "RuntimeError"

\* The array given to the constructor had a time column.
HadTimes(before) == Len(before[1]) = 3
\* The values of row i without its time.
RowValues(array, i) == IF HadTimes(array) THEN Tail(array[i]) ELSE array[i]
\* The values the claim gives for a row: computeMGD of the joints, or the
\* first solution of analyticalMGI.
ConvertedValues(model, values, planification_space) ==
    IF planification_space = "joint"
    THEN AsNumbers(analyticalMGI(model, values).v.joints)
    ELSE computeMGD(model, AsJoints(values))
Constructed ==
    /\ "dic" \in DOMAIN call
    /\ out.kind = "val"
    /\ IsRobotTrajectory(traj)

====
